---- MODULE Spec2Model ----
(***************************************************************************)
(* Cache controller (CacheLogic + CacheRequestHandler) over a memory       *)
(* store, connected by a DataBus.  A bigint is modelled as the vector of   *)
(* its bytes, least significant first (index 0 = bits 0..7).               *)
(***************************************************************************)
EXTENDS Integers, Sequences, FiniteSets, TLC

\* ------------------------------------------------------------------------
\* Bounds of the model
\* ------------------------------------------------------------------------
\* requests are admitted while the logical clock is below MaxClock
MaxClock == 3
\* number of bytes kept of every bigint (line size 2 + 8-byte access + slack)
BigBytes == 10
\* the address codec is explored for addresses 0 .. MaxCodecAddr
MaxCodecAddr == 511
\* largest line size, in bytes, given to applyWriteMask on its own
MaxMaskBytes == 3
\* most ways, and largest stamp, given to the replacement policy on its own
MaxPolicyWays == 3
MaxPolicyStamp == 2

\* ------------------------------------------------------------------------
\* Program constants
\* ------------------------------------------------------------------------
\* the 0xff of `addr & 0xff`
AddrMask == 255
\* the 8 of `tagBits = 8 - offsetBits - setBits`
AddrBits == 8
\* new Array(256) of the memory store
MemSize == 256

\* ------------------------------------------------------------------------
\* Integer bit operations (non-negative operands)
\* ------------------------------------------------------------------------
RECURSIVE Pow2(_)
Pow2(n) == IF n <= 0 THEN 1 ELSE 2 * Pow2(n - 1)

RECURSIVE BitAnd(_, _)
BitAnd(a, b) ==
  IF a = 0 \/ b = 0 THEN 0
  ELSE (IF a % 2 = 1 /\ b % 2 = 1 THEN 1 ELSE 0) + 2 * BitAnd(a \div 2, b \div 2)

RECURSIVE BitOr(_, _)
BitOr(a, b) ==
  IF a = 0 THEN b
  ELSE IF b = 0 THEN a
  ELSE (IF a % 2 = 1 \/ b % 2 = 1 THEN 1 ELSE 0) + 2 * BitOr(a \div 2, b \div 2)

Shl(a, n) == a * Pow2(n)
Shr(a, n) == a \div Pow2(n)

\* ------------------------------------------------------------------------
\* bigint values as byte vectors
\* ------------------------------------------------------------------------
ByteIdx == 0 .. (BigBytes - 1)
BigZero == [i \in ByteIdx |-> 0]
Big(s) == [i \in ByteIdx |-> IF i < Len(s) THEN s[i + 1] ELSE 0]

\* Number((x >> BigInt(k * 8)) & BigInt(0xff))
ByteOf(x, k) == IF k \in ByteIdx THEN x[k] ELSE 0

getSizeInBytes(size) == Pow2(size)

maskToSize(value, size) ==
  [i \in ByteIdx |-> IF i < getSizeInBytes(size) THEN value[i] ELSE 0]

\* ------------------------------------------------------------------------
\* State
\* ------------------------------------------------------------------------
VARIABLES
  offsetBits,         \* CacheLogic.offsetBits
  setBits,            \* CacheLogic.setBits
  numWays,            \* CacheLogic.numWays
  replacementPolicy,  \* "LRU_POLICY" or "createRandomPolicy"
  cacheData,          \* CacheLogic.cacheData: set -> way -> CacheLine
  lruCounter,         \* CacheLogic.lruCounter
  storage,            \* memory store: byte address -> byte
  slaveHandler,       \* DataBus.slaveHandler of the downstream bus
  pc,                 \* position of the transaction in the handler
  req,                \* the request being (or last) processed
  resp,               \* the response returned to the master
  loc,                \* local variables of the running handler
  bus,                \* transaction in flight on the downstream bus
  busLog,             \* history: downstream events of the current request
  lastUse,            \* history: set -> way -> number of the last access
  useCount,           \* history: number of accesses so far
  prevWrite,          \* history: the write request just before this read
  hist,               \* history: the state a request found, and the
                      \* request completed before it with what it left
  cAddr,              \* codec exploration: the address under decode
  cOut,               \* results of the function under exploration
  fnArgs,             \* arguments of the function under exploration
  other,              \* a second call of the handler, started while the
                      \* first waits for its downstream transaction
  l2                  \* the controller registered as slave of the
                      \* downstream bus, when there is one

vars == << offsetBits, setBits, numWays, replacementPolicy, cacheData,
           lruCounter, storage, slaveHandler, pc, req, resp, loc, bus,
           busLog, lastUse, useCount, prevWrite, hist, cAddr, cOut, fnArgs,
           other, l2 >>

\* what no step of a handler assigns: the geometry and the policy, the slave
\* registered on the downstream bus, the suspended second call and the
\* controller of the level below
cfgVars == << offsetBits, setBits, numWays, replacementPolicy, slaveHandler,
              other, l2 >>
codecVars == << cAddr, cOut, fnArgs >>

\* ------------------------------------------------------------------------
\* CacheLogic: geometry
\* ------------------------------------------------------------------------
getNumSets == IF setBits > 0 THEN Shl(1, setBits) ELSE 1
getLineSize == Shl(1, offsetBits)
getTagBits == AddrBits - offsetBits - setBits

SetIdx == 0 .. (getNumSets - 1)
WayIdx == 0 .. (numWays - 1)

\* a line as the constructor creates it
NewLine ==
  [valid |-> FALSE, dirty |-> FALSE, tag |-> 0, data |-> BigZero,
   replaceState |-> 0]

\* ------------------------------------------------------------------------
\* CacheLogic: address parsing
\* ------------------------------------------------------------------------
\* the decode without the reduction to the address width
parseUnmasked(addr) ==
  LET offset == BitAnd(addr, Shl(1, offsetBits) - 1)
      setIndex == IF setBits > 0
                  THEN BitAnd(Shr(addr, offsetBits), Shl(1, setBits) - 1)
                  ELSE 0
      tag == Shr(addr, offsetBits + setBits)
  IN  [tag |-> tag, setIndex |-> setIndex, offset |-> offset]

parseAddress(addr) ==
  LET safeAddr == BitAnd(addr, AddrMask)
      offset == BitAnd(safeAddr, Shl(1, offsetBits) - 1)
      setIndex == IF setBits > 0
                  THEN BitAnd(Shr(safeAddr, offsetBits), Shl(1, setBits) - 1)
                  ELSE 0
      tag == Shr(safeAddr, offsetBits + setBits)
  IN  [tag |-> tag, setIndex |-> setIndex, offset |-> offset]

\* the line base with the set index left unshifted
baseUnshiftedSet(tag, setIndex) ==
  BitOr(Shl(tag, offsetBits + setBits), setIndex)

getLineBaseAddress(tag, setIndex) ==
  BitOr(Shl(tag, offsetBits + setBits), Shl(setIndex, offsetBits))

\* ------------------------------------------------------------------------
\* CacheLogic: lookup and allocation
\* ------------------------------------------------------------------------
RECURSIVE lookupScan(_, _, _)
lookupScan(set, tag, i) ==
  IF i >= numWays THEN [hit |-> FALSE, wayIndex |-> -1]
  ELSE IF set[i].valid /\ set[i].tag = tag THEN [hit |-> TRUE, wayIndex |-> i]
  ELSE lookupScan(set, tag, i + 1)

\* a lookup that reports way 0 whenever that way is valid
lookupFirstValid(setIndex, tag) ==
  IF cacheData[setIndex][0].valid THEN [hit |-> TRUE, wayIndex |-> 0]
  ELSE lookupScan(cacheData[setIndex], tag, 0)

\* a lookup that never looks at way 0
lookupSkipFirst(setIndex, tag) == lookupScan(cacheData[setIndex], tag, 1)

lookup(setIndex, tag) == lookupScan(cacheData[setIndex], tag, 0)

\* the Infinity of LRU_POLICY: above every stamp the clock can give
Infinity == MaxClock + 3

RECURSIVE lruScan(_, _, _, _)
lruScan(ways, i, minLru, victim) ==
  IF i >= numWays THEN victim
  ELSE IF ~ways[i].valid THEN i
  ELSE IF ways[i].replaceState < minLru
       THEN lruScan(ways, i + 1, ways[i].replaceState, i)
       ELSE lruScan(ways, i + 1, minLru, victim)

\* a policy that takes the last of the ways sharing the smallest stamp
RECURSIVE lruScanTiesLast(_, _, _, _)
lruScanTiesLast(ways, i, minLru, victim) ==
  IF i >= numWays THEN victim
  ELSE IF ~ways[i].valid THEN i
  ELSE IF ways[i].replaceState <= minLru
       THEN lruScanTiesLast(ways, i + 1, ways[i].replaceState, i)
       ELSE lruScanTiesLast(ways, i + 1, minLru, victim)

lruPolicyTiesLast(ways) == lruScanTiesLast(ways, 0, Infinity, 0)

\* a policy that takes the most recently stamped valid way
RECURSIVE mruScan(_, _, _, _)
mruScan(ways, i, maxLru, victim) ==
  IF i >= numWays THEN victim
  ELSE IF ~ways[i].valid THEN i
  ELSE IF ways[i].replaceState > maxLru
       THEN mruScan(ways, i + 1, ways[i].replaceState, i)
       ELSE mruScan(ways, i + 1, maxLru, victim)

mruPolicy(ways) == mruScan(ways, 0, -1, 0)

LRU_POLICY(ways) == lruScan(ways, 0, Infinity, 0)

\* random.nextInt(0, ways.length): every index the generator can return
createRandomPolicy(ways) == WayIdx

\* the indices the configured policy can return for the ways of a set
PolicyChoices(ways) ==
  IF replacementPolicy = "LRU_POLICY" THEN {LRU_POLICY(ways)}
  ELSE createRandomPolicy(ways)

\* an allocation that never asks for a writeback
allocateNoWriteback(setIndex, victimIdx) ==
  [victimIndex |-> victimIdx, needsWriteback |-> FALSE, writebackAddr |-> 0]

\* an allocation that asks for a writeback only when the set is full
allocateWritebackWhenFull(setIndex, victimIdx) ==
  LET victim == cacheData[setIndex][victimIdx]
      needsWriteback == /\ victim.valid /\ victim.dirty
                        /\ \A w \in WayIdx : cacheData[setIndex][w].valid
  IN  [victimIndex |-> victimIdx,
       needsWriteback |-> needsWriteback,
       writebackAddr |-> IF needsWriteback
                         THEN getLineBaseAddress(victim.tag, setIndex)
                         ELSE 0]

\* allocate, given the index victimIdx the policy returned
allocate(setIndex, victimIdx) ==
  LET victim == cacheData[setIndex][victimIdx]
      needsWriteback == victim.valid /\ victim.dirty
  IN  [victimIndex |-> victimIdx,
       needsWriteback |-> needsWriteback,
       writebackAddr |-> IF needsWriteback
                         THEN getLineBaseAddress(victim.tag, setIndex)
                         ELSE 0]

\* ------------------------------------------------------------------------
\* CacheLogic: data operations on a line's data word
\* ------------------------------------------------------------------------
readByteFromLine(data, offset) == ByteOf(data, offset)

\* a store that ors the byte into the line without clearing the old one
writeByteToLineOr(data, offset, value) ==
  [data EXCEPT ![offset] = BitOr(@, BitAnd(value, AddrMask))]

writeByteToLine(data, offset, value) ==
  [data EXCEPT ![offset] = BitAnd(value, AddrMask)]

\* a read that starts at byte 0 of the line whatever the offset
readBytesAtZero(data, offset, byteCount) ==
  [i \in ByteIdx |-> IF i < byteCount THEN readByteFromLine(data, i) ELSE 0]

readBytesFromLine(data, offset, byteCount) ==
  [i \in ByteIdx |->
     IF i < byteCount THEN readByteFromLine(data, offset + i) ELSE 0]

RECURSIVE writeBytesFrom(_, _, _, _, _)
writeBytesFrom(data, offset, value, byteCount, i) ==
  IF i >= byteCount THEN data
  ELSE writeBytesFrom(writeByteToLine(data, offset + i, ByteOf(value, i)),
                      offset, value, byteCount, i + 1)

\* a write that stores one byte fewer than the size asks for
writeBytesShort(data, offset, value, byteCount) ==
  writeBytesFrom(data, offset, value, byteCount - 1, 0)

writeBytesToLine(data, offset, value, byteCount) ==
  writeBytesFrom(data, offset, value, byteCount, 0)

\* ------------------------------------------------------------------------
\* CacheLogic: line state modifications (each returns the new line)
\* ------------------------------------------------------------------------
\* a stamp taken before the clock is incremented
updateReplaceStateStale(line) == [line EXCEPT !.replaceState = lruCounter]

\* a stamp counted per line instead of taken from the clock
updateReplaceStatePerLine(line) ==
  [line EXCEPT !.replaceState = line.replaceState + 1]

\* line.replaceState = ++this.lruCounter
updateReplaceState(line) == [line EXCEPT !.replaceState = lruCounter + 1]

\* an install that marks the fetched line dirty
installLineDirty(line, tag, data) ==
  updateReplaceState(
    [line EXCEPT !.valid = TRUE, !.dirty = TRUE, !.tag = tag, !.data = data])

installLine(line, tag, data) ==
  updateReplaceState(
    [line EXCEPT !.valid = TRUE, !.dirty = FALSE, !.tag = tag, !.data = data])

\* a markClean that drops the line as well
markCleanInvalidates(line) == [line EXCEPT !.dirty = FALSE, !.valid = FALSE]

\* a markClean that leaves the dirty bit alone
markCleanKeepsDirty(line) == line

markClean(line) == [line EXCEPT !.dirty = FALSE]

\* an invalidation that clears the dirty bit and leaves the line valid
invalidateKeepsValid(line) == [line EXCEPT !.dirty = FALSE]

\* an invalidation that leaves the dirty bit alone
invalidateKeepsDirty(line) == [line EXCEPT !.valid = FALSE]

invalidateLine(line) == [line EXCEPT !.valid = FALSE, !.dirty = FALSE]

zeroLine(line, tag) ==
  updateReplaceState(
    [line EXCEPT !.valid = TRUE, !.dirty = TRUE, !.tag = tag,
                 !.data = BigZero])

\* an invalidateAll that stops after the first set
invalidateAllFirstSet ==
  [s \in SetIdx |-> [w \in WayIdx |->
     IF s = 0
     THEN [cacheData[s][w] EXCEPT !.valid = FALSE, !.dirty = FALSE]
     ELSE cacheData[s][w]]]

invalidateAll ==
  [s \in SetIdx |-> [w \in WayIdx |->
     [cacheData[s][w] EXCEPT !.valid = FALSE, !.dirty = FALSE]]]

\* a sweep order that stops after the ways of the first set
lineOrderFirstSet(s, w) ==
  [i \in 1 .. numWays |-> [setIndex |-> 0, wayIndex |-> i - 1]]

\* the (set, way) pairs in the order of the two nested loops
RECURSIVE lineOrder(_, _)
lineOrder(s, w) ==
  IF s >= getNumSets THEN << >>
  ELSE IF w >= numWays THEN lineOrder(s + 1, 0)
  ELSE << [setIndex |-> s, wayIndex |-> w] >> \o lineOrder(s, w + 1)

\* a list of dirty lines that ends with the first one found
getDirtyLinesFirst ==
  LET dirty == SelectSeq(lineOrder(0, 0),
                 LAMBDA e : cacheData[e.setIndex][e.wayIndex].valid
                            /\ cacheData[e.setIndex][e.wayIndex].dirty)
  IN  IF dirty = << >> THEN << >> ELSE << Head(dirty) >>

getDirtyLines ==
  SelectSeq(lineOrder(0, 0),
            LAMBDA e : cacheData[e.setIndex][e.wayIndex].valid
                       /\ cacheData[e.setIndex][e.wayIndex].dirty)

\* ------------------------------------------------------------------------
\* PacketUtils: memory bytes and write masks
\* ------------------------------------------------------------------------
readBytesLE(store, addr, byteCount) ==
  [i \in ByteIdx |->
     IF i < byteCount THEN store[BitAnd(addr + i, AddrMask)] ELSE 0]

RECURSIVE writeBytesLEFrom(_, _, _, _, _)
writeBytesLEFrom(store, addr, value, byteCount, i) ==
  IF i >= byteCount THEN store
  ELSE writeBytesLEFrom(
         [store EXCEPT ![BitAnd(addr + i, AddrMask)] = ByteOf(value, i)],
         addr, value, byteCount, i + 1)

\* a store that leaves out the last byte
writeBytesLEDropsLast(store, addr, value, byteCount) ==
  writeBytesLEFrom(store, addr, value, byteCount - 1, 0)

writeBytesLE(store, addr, value, byteCount) ==
  writeBytesLEFrom(store, addr, value, byteCount, 0)

\* a merge that reads the mask one bit too high
applyWriteMaskShifted(oldData, newData, writeMask, lineSize) ==
  [i \in ByteIdx |->
     IF i < lineSize /\ BitAnd(Shr(writeMask, i + 1), 1) = 1
     THEN newData[i] ELSE oldData[i]]

\* a merge that takes every byte below lineSize from newData
applyWriteMaskAll(oldData, newData, writeMask, lineSize) ==
  [i \in ByteIdx |-> IF i < lineSize THEN newData[i] ELSE oldData[i]]

\* byte i of the result is newData's when bit i of writeMask is set
applyWriteMask(oldData, newData, writeMask, lineSize) ==
  [i \in ByteIdx |->
     IF i < lineSize /\ BitAnd(Shr(writeMask, i), 1) = 1
     THEN newData[i] ELSE oldData[i]]

\* ------------------------------------------------------------------------
\* Packets
\* ------------------------------------------------------------------------
\* a request packet; hasAddr = FALSE stands for `addr === undefined`
Request(type, hasAddr, addr, size, value, global, lineSize, writeMask) ==
  [type |-> type, hasAddr |-> hasAddr, addr |-> addr, size |-> size,
   value |-> value, global |-> global, lineSize |-> lineSize,
   writeMask |-> writeMask]

NoReq == Request("none", FALSE, 0, 0, BigZero, FALSE, 0, 0)

\* a response packet; value also carries the data of a line_read response
\* the display text of a payload, as the list of its parts
NoDisplay == << >>

Response(type, addr, size, value, success) ==
  [type |-> type, addr |-> addr, size |-> size, value |-> value,
   success |-> success, display |-> NoDisplay]

\* the payload that carries a response packet and its display text
Payload(content, display) == [content EXCEPT !.display = display]

\* "0x" and the two hex digits of addr & 0xff: one text per masked address
formatAddr(addr) == BitAnd(addr, AddrMask)

\* the display of an inval, clean or flush response
ManagementDisplay(r) ==
  LET name == CASE r.type = "inval" -> "INVAL"
                [] r.type = "clean" -> "CLEAN"
                [] r.type = "flush" -> "FLUSH"
                [] OTHER -> "NONE"
  IN  IF r.global THEN << name, "ALL" >>
      ELSE << name, formatAddr(IF r.hasAddr THEN r.addr ELSE 0) >>

NoResp == Response("none", 0, 0, BigZero, FALSE)

\* the downstream bus: phase "none", "req" (request sent) or "resp"
NoBus == [phase |-> "none", pkt |-> NoReq, rsp |-> NoResp]

\* an entry of the downstream history
LogEntry(ev, type, addr, value, wasValid, wasDirty) ==
  [ev |-> ev, type |-> type, addr |-> addr, value |-> value,
   wasValid |-> wasValid, wasDirty |-> wasDirty]

\* the locals of a handler; victim, setFull and resident are history: the
\* victim line, whether every way of the set was valid, and whether the
\* addressed line was in the cache, all as the request found them
NoLoc ==
  [tag |-> 0, setIndex |-> 0, offset |-> 0, hit |-> FALSE, wayIdx |-> 0,
   needsWriteback |-> FALSE, writebackAddr |-> 0, victim |-> NewLine,
   setFull |-> FALSE, resident |-> FALSE, caller |-> "none", wbSet |-> 0, wbWay |-> 0,
   wbIssued |-> FALSE, work |-> << >>]

\* ------------------------------------------------------------------------
\* Request packets as the masters build them
\* ------------------------------------------------------------------------
ReadReq(a, s) == Request("read", TRUE, a, s, BigZero, FALSE, 0, 0)
WriteReq(a, s, v) == Request("write", TRUE, a, s, v, FALSE, 0, 0)
\* inval, clean, flush, zero, prefetch with an address
AddrReq(type, a) == Request(type, TRUE, a, 0, BigZero, FALSE, 0, 0)
\* inval, clean, flush without an address, the global flag set or not
SweepReq(type, g) == Request(type, FALSE, 0, 0, BigZero, g, 0, 0)
LineReadReq(a, n) == Request("line_read", TRUE, a, 0, BigZero, FALSE, n, 0)
LineWriteReq(a, n, d, m) == Request("line_write", TRUE, a, 0, d, FALSE, n, m)

\* two data words with pairwise different bytes
V1 == Big(<< 18, 52, 86, 120, 154, 188, 222, 240 >>)
V2 == Big(<< 255, 238, 221, 204, 187, 170, 153, 136 >>)

\* ------------------------------------------------------------------------
\* History of the requests
\* ------------------------------------------------------------------------
\* the cache lines, the clock and the memory bytes at one moment
Snapshot ==
  [cacheData |-> cacheData, lruCounter |-> lruCounter, storage |-> storage]

NoSnapshot == [cacheData |-> << >>, lruCounter |-> 0, storage |-> << >>]

\* nothing remembered; track says whether the history is kept at all,
\* chain whether it reaches back to the request completed before
\* flat, when kept, holds the bytes of a flat memory that took the writes
NoHist(track) ==
  [track |-> track, chain |-> track, before |-> NoSnapshot,
   last |-> [req |-> NoReq, resp |-> NoResp, loc |-> NoLoc,
             after |-> NoSnapshot],
   flat |-> << >>]

\* the history of the state each request found, and no more
NoHistBefore == [NoHist(TRUE) EXCEPT !.chain = FALSE]

\* ------------------------------------------------------------------------
\* Construction
\* ------------------------------------------------------------------------
\* g.handler, when given, is the slave of the downstream bus, and g.l2 the
\* geometry of the controller below; no second call is in progress
InitCache(g) ==
  /\ offsetBits = g.offsetBits
  /\ setBits = g.setBits
  /\ numWays = g.numWays
  /\ replacementPolicy = g.policy
  /\ cacheData = [s \in SetIdx |-> [w \in WayIdx |-> NewLine]]
  /\ lruCounter = 0
  /\ storage = [a \in 0 .. (MemSize - 1) |-> 0]
  /\ slaveHandler = IF "handler" \in DOMAIN g THEN g.handler
                    ELSE "MemorySlave"
  /\ pc = "idle"
  /\ req = NoReq
  /\ resp = NoResp
  /\ loc = NoLoc
  /\ bus = NoBus
  /\ busLog = << >>
  /\ lastUse = [s \in SetIdx |-> [w \in WayIdx |-> 0]]
  /\ useCount = 0
  /\ prevWrite = NoReq
  /\ other = [pc |-> "idle", req |-> NoReq, resp |-> NoResp, loc |-> NoLoc,
              bus |-> NoBus, busLog |-> << >>]
  /\ l2 = IF "l2" \in DOMAIN g
          THEN [offsetBits |-> g.l2.offsetBits, setBits |-> g.l2.setBits,
                numWays |-> g.l2.numWays,
                cacheData |-> [s \in 0 .. (Pow2(g.l2.setBits) - 1) |->
                                 [w \in 0 .. (g.l2.numWays - 1) |-> NewLine]],
                lruCounter |-> 0]
          ELSE [offsetBits |-> 0, setBits |-> 0, numWays |-> 0,
                cacheData |-> << >>, lruCounter |-> 0]

\* ------------------------------------------------------------------------
\* Shared pieces of the handlers
\* ------------------------------------------------------------------------
\* processTransaction admits a request: one at a time, start to finish
Begin(r) ==
  /\ pc = "idle"
  /\ req' = r
  /\ resp' = NoResp
  /\ busLog' = << >>
  /\ prevWrite' = IF r.type = "read" THEN prevWrite ELSE NoReq
  /\ hist' = IF hist.track THEN [hist EXCEPT !.before = Snapshot] ELSE hist

\* history: the line of address a is in the cache (a valid way of its set
\* carries its tag), by arithmetic on the low eight bits of a
Resident(a) ==
  LET low == a % Pow2(AddrBits)
      s == (low \div Pow2(offsetBits)) % getNumSets
      t == low \div Pow2(offsetBits + setBits)
  IN  \E w \in WayIdx : cacheData[s][w].valid /\ cacheData[s][w].tag = t

\* history: the access of way w of set s is the most recent one
Used(s, w) ==
  /\ lastUse' = [lastUse EXCEPT ![s][w] = useCount + 1]
  /\ useCount' = useCount + 1

\* a writeBackLine that hands a zero request on to the fetch
ReturnPcZeroFetches(caller) ==
  CASE caller = "fetchLine" -> "fetchStart"
    [] caller = "handleZero" -> "fetchStart"
    [] caller = "handleClean" -> "mgmtEnd"
    [] caller = "cleanAll" -> "cleanLoop"
    [] caller = "handleFlush" -> "flushInvalidate"
    [] caller = "flushAll" -> "flushInvalidate"
    [] OTHER -> "idle"

\* a writeBackLine that starts over instead of returning
ReturnPcStartsOver(caller) == "writeBackLine"

\* where writeBackLine returns to
ReturnPc(caller) ==
  CASE caller = "fetchLine" -> "fetchStart"
    [] caller = "handleZero" -> "zeroLine"
    [] caller = "handleClean" -> "mgmtEnd"
    [] caller = "cleanAll" -> "cleanLoop"
    [] caller = "handleFlush" -> "flushInvalidate"
    [] caller = "flushAll" -> "flushInvalidate"
    [] OTHER -> "idle"

\* lookup, then the hit branch (touch the line) or the start of fetchLine
\* (allocate a victim, write it back first when it is valid and dirty)
LookupOrFetch(r) ==
  LET safeAddr == BitAnd(r.addr, AddrMask)
      p == parseAddress(safeAddr)
      lookupResult == lookup(p.setIndex, p.tag)
      parts == [NoLoc EXCEPT !.tag = p.tag, !.setIndex = p.setIndex,
                             !.resident = Resident(r.addr),
                             !.offset = p.offset]
  IN  IF lookupResult.hit
      THEN /\ cacheData' =
                [cacheData EXCEPT ![p.setIndex][lookupResult.wayIndex] =
                                     updateReplaceState(@)]
           /\ lruCounter' = lruCounter + 1
           /\ Used(p.setIndex, lookupResult.wayIndex)
           /\ loc' = [parts EXCEPT !.hit = TRUE,
                                   !.wayIdx = lookupResult.wayIndex]
           /\ pc' = "access"
      ELSE \E v \in PolicyChoices(cacheData[p.setIndex]) :
             LET allocation == allocate(p.setIndex, v)
             IN  /\ loc' = [parts EXCEPT
                              !.wayIdx = allocation.victimIndex,
                              !.needsWriteback = allocation.needsWriteback,
                              !.writebackAddr = allocation.writebackAddr,
                              !.victim = cacheData[p.setIndex][v],
                              !.setFull = \A w \in WayIdx :
                                            cacheData[p.setIndex][w].valid,
                              !.caller = "fetchLine",
                              !.wbSet = p.setIndex,
                              !.wbWay = allocation.victimIndex]
                 /\ pc' = IF allocation.needsWriteback
                          THEN "writeBackLine" ELSE "fetchStart"
                 /\ UNCHANGED << cacheData, lruCounter, lastUse, useCount >>

\* ------------------------------------------------------------------------
\* CacheRequestHandler: the entry of each handler
\* ------------------------------------------------------------------------
HandleReadWrite(r) ==
  /\ Begin(r)
  /\ LookupOrFetch(r)
  /\ UNCHANGED << cfgVars, codecVars, storage, bus >>

\* a prefetch whose hit leaves the recency stamp alone
HandlePrefetchNoTouch(r) ==
  /\ Begin(r)
  /\ LET p == parseAddress(BitAnd(r.addr, AddrMask))
         lookupResult == lookup(p.setIndex, p.tag)
     IN  IF lookupResult.hit
         THEN /\ loc' = [NoLoc EXCEPT !.tag = p.tag, !.setIndex = p.setIndex,
                                      !.resident = Resident(r.addr),
                                      !.offset = p.offset, !.hit = TRUE,
                                      !.wayIdx = lookupResult.wayIndex]
              /\ pc' = "access"
              /\ UNCHANGED << cacheData, lruCounter, lastUse, useCount >>
         ELSE LookupOrFetch(r)
  /\ UNCHANGED << cfgVars, codecVars, storage, bus >>

HandlePrefetch(r) ==
  /\ Begin(r)
  /\ LookupOrFetch(r)
  /\ UNCHANGED << cfgVars, codecVars, storage, bus >>

HandleLineRead(r) ==
  /\ Begin(r)
  /\ LookupOrFetch(r)
  /\ UNCHANGED << cfgVars, codecVars, storage, bus >>

HandleLineWrite(r) ==
  /\ Begin(r)
  /\ LookupOrFetch(r)
  /\ UNCHANGED << cfgVars, codecVars, storage, bus >>

HandleZero(r) ==
  /\ Begin(r)
  /\ LET safeAddr == BitAnd(r.addr, AddrMask)
         p == parseAddress(safeAddr)
         lookupResult == lookup(p.setIndex, p.tag)
         parts == [NoLoc EXCEPT !.tag = p.tag, !.setIndex = p.setIndex,
                             !.resident = Resident(r.addr),
                                !.offset = p.offset]
     IN  IF lookupResult.hit
         THEN /\ loc' = [parts EXCEPT !.hit = TRUE,
                                      !.wayIdx = lookupResult.wayIndex]
              /\ pc' = "zeroLine"
         ELSE \E v \in PolicyChoices(cacheData[p.setIndex]) :
                LET allocation == allocate(p.setIndex, v)
                IN  /\ loc' = [parts EXCEPT
                                 !.wayIdx = allocation.victimIndex,
                                 !.needsWriteback = allocation.needsWriteback,
                                 !.writebackAddr = allocation.writebackAddr,
                                 !.victim = cacheData[p.setIndex][v],
                                 !.setFull = \A w \in WayIdx :
                                               cacheData[p.setIndex][w].valid,
                                 !.caller = "handleZero",
                                 !.wbSet = p.setIndex,
                                 !.wbWay = allocation.victimIndex]
                    /\ pc' = "writeBackLine"
  /\ UNCHANGED << cfgVars, codecVars, storage, bus, cacheData, lruCounter,
                  lastUse, useCount >>

HandleInvalidate(r) ==
  /\ Begin(r)
  /\ IF r.global \/ ~r.hasAddr
     THEN /\ cacheData' = invalidateAll
          /\ loc' = NoLoc
     ELSE LET p == parseAddress(r.addr)
              lookupResult == lookup(p.setIndex, p.tag)
              parts == [NoLoc EXCEPT !.tag = p.tag, !.setIndex = p.setIndex,
                                     !.resident = Resident(r.addr)]
          IN  IF lookupResult.hit
              THEN /\ cacheData' =
                        [cacheData EXCEPT ![p.setIndex][lookupResult.wayIndex]
                                             = invalidateLine(@)]
                   /\ loc' = [parts EXCEPT
                                !.hit = TRUE,
                                !.wayIdx = lookupResult.wayIndex,
                                !.victim = cacheData[p.setIndex]
                                                    [lookupResult.wayIndex]]
              ELSE /\ cacheData' = cacheData
                   /\ loc' = parts
  /\ pc' = "mgmtEnd"
  /\ UNCHANGED << cfgVars, codecVars, storage, bus, lruCounter, lastUse,
                  useCount >>

HandleClean(r) ==
  /\ Begin(r)
  /\ IF r.global \/ ~r.hasAddr
     THEN /\ loc' = [NoLoc EXCEPT !.caller = "cleanAll",
                                  !.work = getDirtyLines]
          /\ pc' = "cleanLoop"
     ELSE LET p == parseAddress(r.addr)
              lookupResult == lookup(p.setIndex, p.tag)
              parts == [NoLoc EXCEPT !.tag = p.tag, !.setIndex = p.setIndex,
                                     !.resident = Resident(r.addr)]
          IN  IF lookupResult.hit
              THEN /\ loc' = [parts EXCEPT !.hit = TRUE,
                                           !.wayIdx = lookupResult.wayIndex,
                                           !.caller = "handleClean",
                                           !.wbSet = p.setIndex,
                                           !.wbWay = lookupResult.wayIndex]
                   /\ pc' = "writeBackLine"
              ELSE /\ loc' = parts
                   /\ pc' = "mgmtEnd"
  /\ UNCHANGED << cfgVars, codecVars, storage, bus, cacheData, lruCounter,
                  lastUse, useCount >>

HandleFlush(r) ==
  /\ Begin(r)
  /\ IF r.global \/ ~r.hasAddr
     THEN /\ loc' = [NoLoc EXCEPT !.caller = "flushAll",
                                  !.work = lineOrder(0, 0)]
          /\ pc' = "flushLoop"
     ELSE LET p == parseAddress(r.addr)
              lookupResult == lookup(p.setIndex, p.tag)
              parts == [NoLoc EXCEPT !.tag = p.tag, !.setIndex = p.setIndex,
                                     !.resident = Resident(r.addr)]
          IN  IF lookupResult.hit
              THEN /\ loc' = [parts EXCEPT !.hit = TRUE,
                                           !.wayIdx = lookupResult.wayIndex,
                                           !.caller = "handleFlush",
                                           !.wbSet = p.setIndex,
                                           !.wbWay = lookupResult.wayIndex]
                   /\ pc' = "writeBackLine"
              ELSE /\ loc' = parts
                   /\ pc' = "mgmtEnd"
  /\ UNCHANGED << cfgVars, codecVars, storage, bus, cacheData, lruCounter,
                  lastUse, useCount >>

\* ------------------------------------------------------------------------
\* CacheRequestHandler: the global sweeps
\* ------------------------------------------------------------------------
\* the next line of the sweep is handed to writeBackLine
SweepNext ==
  /\ pc \in {"cleanLoop", "flushLoop"}
  /\ loc.work # << >>
  /\ loc' = [loc EXCEPT !.wbSet = Head(loc.work).setIndex,
                        !.wbWay = Head(loc.work).wayIndex,
                        !.work = Tail(loc.work)]
  /\ pc' = "writeBackLine"
  /\ UNCHANGED << cfgVars, codecVars, cacheData, lruCounter, storage, req,
                  resp, bus, busLog, lastUse, useCount, prevWrite,
                  hist >>

SweepDone ==
  /\ pc \in {"cleanLoop", "flushLoop"}
  /\ loc.work = << >>
  /\ pc' = "mgmtEnd"
  /\ UNCHANGED << cfgVars, codecVars, cacheData, lruCounter, storage, req,
                  resp, loc, bus, busLog, lastUse, useCount, prevWrite,
                  hist >>

\* a flush that goes on without invalidating the line
FlushInvalidateSkips ==
  /\ pc = "flushInvalidate"
  /\ pc' = IF loc.caller = "flushAll" THEN "flushLoop" ELSE "mgmtEnd"
  /\ UNCHANGED << cfgVars, codecVars, cacheData, lruCounter, storage, req,
                  resp, loc, bus, busLog, lastUse, useCount, prevWrite,
                  hist >>

\* flush: invalidateLine after writeBackLine has returned
FlushInvalidate ==
  /\ pc = "flushInvalidate"
  /\ cacheData' = [cacheData EXCEPT ![loc.wbSet][loc.wbWay] =
                                       invalidateLine(@)]
  /\ pc' = IF loc.caller = "flushAll" THEN "flushLoop" ELSE "mgmtEnd"
  /\ UNCHANGED << cfgVars, codecVars, lruCounter, storage, req, resp, loc,
                  bus, busLog, lastUse, useCount, prevWrite,
                  hist >>

\* the response of inval, clean and flush
ManagementResponse ==
  /\ pc = "mgmtEnd"
  /\ resp' = Payload(Response(req.type, 0, 0, BigZero, TRUE),
                     ManagementDisplay(req))
  /\ pc' = "responded"
  /\ UNCHANGED << cfgVars, codecVars, cacheData, lruCounter, storage, req,
                  loc, bus, busLog, lastUse, useCount, prevWrite,
                  hist >>

\* ------------------------------------------------------------------------
\* CacheRequestHandler.writeBackLine
\* ------------------------------------------------------------------------
\* if (!line.valid || !line.dirty) return
WriteBackSkip ==
  /\ pc = "writeBackLine"
  /\ LET line == cacheData[loc.wbSet][loc.wbWay]
     IN  ~line.valid \/ ~line.dirty
  /\ loc' = [loc EXCEPT !.wbIssued = FALSE]
  /\ pc' = "wbReturned"
  /\ UNCHANGED << cfgVars, codecVars, cacheData, lruCounter, storage, req,
                  resp, bus, busLog, lastUse, useCount, prevWrite,
                  hist >>

WriteBackIssue ==
  /\ pc = "writeBackLine"
  /\ LET line == cacheData[loc.wbSet][loc.wbWay]
         baseAddr == getLineBaseAddress(line.tag, loc.wbSet)
     IN  /\ line.valid /\ line.dirty
         /\ bus' = [phase |-> "req",
                    pkt |-> Request("write", TRUE, baseAddr, offsetBits,
                                    line.data, FALSE, 0, 0),
                    rsp |-> NoResp]
         /\ busLog' = Append(busLog,
                        LogEntry("issue", "write", baseAddr, line.data,
                                 line.valid, line.dirty))
  /\ pc' = "wbTransaction"
  /\ UNCHANGED << cfgVars, codecVars, cacheData, lruCounter, storage, req,
                  resp, loc, lastUse, useCount, prevWrite,
                  hist >>

\* performTransaction has returned: markClean
WriteBackReturn ==
  /\ pc = "wbTransaction"
  /\ bus.phase = "resp"
  /\ cacheData' = [cacheData EXCEPT ![loc.wbSet][loc.wbWay] = markClean(@)]
  /\ busLog' = Append(busLog,
                 LogEntry("return", bus.rsp.type, bus.rsp.addr, bus.rsp.value,
                          FALSE, FALSE))
  /\ bus' = NoBus
  /\ loc' = [loc EXCEPT !.wbIssued = TRUE]
  /\ pc' = "wbReturned"
  /\ UNCHANGED << cfgVars, codecVars, lruCounter, storage, req, resp,
                  lastUse, useCount, prevWrite,
                  hist >>

\* writeBackLine returns to its caller
WriteBackExit ==
  /\ pc = "wbReturned"
  /\ pc' = ReturnPc(loc.caller)
  /\ UNCHANGED << cfgVars, codecVars, cacheData, lruCounter, storage, req,
                  resp, loc, bus, busLog, lastUse, useCount, prevWrite,
                  hist >>

\* ------------------------------------------------------------------------
\* CacheRequestHandler.fetchLine
\* ------------------------------------------------------------------------
\* a fetch that forwards the master's request as it came
FetchIssueForwards ==
  /\ pc = "fetchStart"
  /\ bus' = [phase |-> "req", pkt |-> req, rsp |-> NoResp]
  /\ busLog' = Append(busLog,
                 LogEntry("issue", req.type, req.addr, BigZero, FALSE, FALSE))
  /\ pc' = "fetchTransaction"
  /\ UNCHANGED << cfgVars, codecVars, cacheData, lruCounter, storage, req,
                  resp, loc, lastUse, useCount, prevWrite,
                  hist >>

FetchIssue ==
  /\ pc = "fetchStart"
  /\ LET baseAddr == getLineBaseAddress(loc.tag, loc.setIndex)
     IN  /\ bus' = [phase |-> "req",
                    pkt |-> Request("read", TRUE, baseAddr, offsetBits,
                                    BigZero, FALSE, 0, 0),
                    rsp |-> NoResp]
         /\ busLog' = Append(busLog,
                        LogEntry("issue", "read", baseAddr, BigZero,
                                 FALSE, FALSE))
  /\ pc' = "fetchTransaction"
  /\ UNCHANGED << cfgVars, codecVars, cacheData, lruCounter, storage, req,
                  resp, loc, lastUse, useCount, prevWrite,
                  hist >>

\* fetched data taken from the response whatever its kind
lineDataOfAnyResponse(response) == response.value

\* let lineData = BigInt(0); if (isReadResponse(response.content)) ...
lineDataOf(response) ==
  IF response.type = "read" THEN response.value ELSE BigZero

FetchInstall ==
  /\ pc = "fetchTransaction"
  /\ bus.phase = "resp"
  /\ LET lineData == lineDataOf(bus.rsp)
         victim == cacheData[loc.setIndex][loc.wayIdx]
     IN  /\ cacheData' = [cacheData EXCEPT ![loc.setIndex][loc.wayIdx] =
                                              installLine(@, loc.tag, lineData)]
         /\ busLog' = busLog \o
              << LogEntry("return", bus.rsp.type, bus.rsp.addr, bus.rsp.value,
                          FALSE, FALSE),
                 LogEntry("install", "line",
                          getLineBaseAddress(loc.tag, loc.setIndex), lineData,
                          victim.valid, victim.dirty) >>
  /\ lruCounter' = lruCounter + 1
  /\ Used(loc.setIndex, loc.wayIdx)
  /\ bus' = NoBus
  /\ pc' = "access"
  /\ UNCHANGED << cfgVars, codecVars, storage, req, resp, loc, prevWrite,
                  hist >>

\* ------------------------------------------------------------------------
\* DataBus.performTransaction: the registered slave answers
\* ------------------------------------------------------------------------
\* the memory store's processTransaction
MemoryProcessTransaction ==
  /\ bus.phase = "req"
  /\ slaveHandler = "MemorySlave"
  /\ LET safeAddr == BitAnd(bus.pkt.addr, AddrMask)
         size == bus.pkt.size
         byteCount == getSizeInBytes(size)
     IN  IF bus.pkt.type = "write"
         THEN /\ storage' = writeBytesLE(storage, safeAddr, bus.pkt.value,
                                         byteCount)
              /\ bus' = [bus EXCEPT
                           !.phase = "resp",
                           !.rsp = Response("write", safeAddr, size,
                                            bus.pkt.value, TRUE)]
              /\ busLog' = Append(busLog,
                             LogEntry("answer", "write", safeAddr,
                                      bus.pkt.value, FALSE, FALSE))
         ELSE LET val == readBytesLE(storage, safeAddr, byteCount)
              IN  /\ storage' = storage
                  /\ bus' = [bus EXCEPT
                               !.phase = "resp",
                               !.rsp = Response("read", safeAddr, size, val,
                                                TRUE)]
                  /\ busLog' = Append(busLog,
                                 LogEntry("answer", "read", safeAddr, val,
                                          FALSE, FALSE))
  /\ UNCHANGED << cfgVars, codecVars, cacheData, lruCounter, pc, req, resp,
                  loc, lastUse, useCount, prevWrite,
                  hist >>

\* a registered slave that acknowledges every request with a response of
\* kind write and stores nothing: the wrong kind for a read
AckProcessTransaction ==
  /\ bus.phase = "req"
  /\ slaveHandler = "AckSlave"
  /\ LET safeAddr == BitAnd(bus.pkt.addr, AddrMask)
     IN  /\ bus' = [bus EXCEPT
                      !.phase = "resp",
                      !.rsp = Response("write", safeAddr, bus.pkt.size, V2,
                                       TRUE)]
         /\ busLog' = Append(busLog,
                        LogEntry("answer", "write", safeAddr, V2,
                                 FALSE, FALSE))
  /\ UNCHANGED << cfgVars, codecVars, cacheData, lruCounter, storage, pc, req,
                  resp, loc, lastUse, useCount, prevWrite, hist >>

\* bus().slaveHandler = h, between two requests
SetSlaveHandler(h) ==
  /\ pc = "idle"
  /\ slaveHandler # h
  /\ slaveHandler' = h
  /\ UNCHANGED << offsetBits, setBits, numWays, replacementPolicy, other, l2,
                  codecVars, cacheData, lruCounter, storage, pc, req, resp,
                  loc, bus, busLog, lastUse, useCount, prevWrite, hist >>

\* the handler is called again while a call waits in performTransaction for
\* its writeback or its fetch, or the waiting call is resumed: the running
\* generator and the other one change places, each with its own request,
\* locals and downstream transaction; the lines and the clock are the
\* controller's and are shared
Switch ==
  /\ pc \in {"idle", "wbTransaction", "fetchTransaction"}
  /\ other.pc \in {"idle", "wbTransaction", "fetchTransaction"}
  /\ pc # "idle" \/ other.pc # "idle"
  /\ other' = [pc |-> pc, req |-> req, resp |-> resp, loc |-> loc,
               bus |-> bus, busLog |-> busLog]
  /\ pc' = other.pc
  /\ req' = other.req
  /\ resp' = other.resp
  /\ loc' = other.loc
  /\ bus' = other.bus
  /\ busLog' = other.busLog
  /\ UNCHANGED << offsetBits, setBits, numWays, replacementPolicy,
                  slaveHandler, l2, codecVars, cacheData, lruCounter, storage,
                  lastUse, useCount, prevWrite, hist >>

\* a second controller registered as the slave: its handleReadWrite run to
\* its end over the memory store (lookup; on a miss LRU_POLICY, the
\* writeback of a valid dirty victim, the fetch and the install; then the
\* access to the line)
L2ProcessTransaction ==
  /\ bus.phase = "req"
  /\ slaveHandler = "L2Cache"
  /\ LET o == l2.offsetBits
         sb == l2.setBits
         W == 0 .. (l2.numWays - 1)
         safeAddr == BitAnd(bus.pkt.addr, AddrMask)
         offset == BitAnd(safeAddr, Shl(1, o) - 1)
         setIndex == IF sb > 0
                     THEN BitAnd(Shr(safeAddr, o), Shl(1, sb) - 1)
                     ELSE 0
         tag == Shr(safeAddr, o + sb)
         ways == l2.cacheData[setIndex]
         Match(w) == ways[w].valid /\ ways[w].tag = tag
         hit == \E w \in W : Match(w)
         victimIdx ==
           IF \E w \in W : ~ways[w].valid
           THEN CHOOSE w \in W :
                  ~ways[w].valid /\ \A v \in W : v < w => ways[v].valid
           ELSE CHOOSE w \in W :
                  \A v \in W :
                    /\ ways[w].replaceState <= ways[v].replaceState
                    /\ v < w => ways[w].replaceState < ways[v].replaceState
         wayIndex == IF hit
                     THEN CHOOSE w \in W :
                            Match(w) /\ \A v \in W : v < w => ~Match(v)
                     ELSE victimIdx
         victim == ways[victimIdx]
         lineBytes == getSizeInBytes(o)
         written == IF ~hit /\ victim.valid /\ victim.dirty
                    THEN writeBytesLE(storage,
                                      BitOr(Shl(victim.tag, o + sb),
                                            Shl(setIndex, o)),
                                      victim.data, lineBytes)
                    ELSE storage
         lineData == readBytesLE(written,
                                 BitOr(Shl(tag, o + sb), Shl(setIndex, o)),
                                 lineBytes)
         stamp == l2.lruCounter + 1
         line == IF hit
                 THEN [ways[wayIndex] EXCEPT !.replaceState = stamp]
                 ELSE [valid |-> TRUE, dirty |-> FALSE, tag |-> tag,
                       data |-> lineData, replaceState |-> stamp]
         byteCount == getSizeInBytes(bus.pkt.size)
         value == IF bus.pkt.type = "write" THEN bus.pkt.value
                  ELSE readBytesFromLine(line.data, offset, byteCount)
     IN  /\ storage' = written
         /\ l2' = [l2 EXCEPT
                     !.cacheData[setIndex][wayIndex] =
                        IF bus.pkt.type = "write"
                        THEN [line EXCEPT
                                !.data = writeBytesToLine(line.data, offset,
                                                          bus.pkt.value,
                                                          byteCount),
                                !.dirty = TRUE]
                        ELSE line,
                     !.lruCounter = stamp]
         /\ bus' = [bus EXCEPT
                      !.phase = "resp",
                      !.rsp = Response(bus.pkt.type, safeAddr, bus.pkt.size,
                                       value, TRUE)]
         /\ busLog' = Append(busLog,
                        LogEntry("answer", bus.pkt.type, safeAddr, value,
                                 FALSE, FALSE))
  /\ UNCHANGED << offsetBits, setBits, numWays, replacementPolicy,
                  slaveHandler, other, codecVars, cacheData, lruCounter, pc,
                  req, resp, loc, lastUse, useCount, prevWrite, hist >>

\* a bus that answers with an empty response when no slave is registered
InterconnectSilent ==
  /\ bus.phase = "req"
  /\ slaveHandler = "null"
  /\ bus' = [bus EXCEPT !.phase = "resp", !.rsp = NoResp]
  /\ UNCHANGED << cfgVars, codecVars, cacheData, lruCounter, storage, pc, req,
                  resp, loc, busLog, lastUse, useCount, prevWrite, hist >>

\* no slave handler is registered: throw Error("Interconnect error"); the
\* error leaves performTransaction and every generator waiting on it
InterconnectError ==
  /\ bus.phase = "req"
  /\ slaveHandler = "null"
  /\ bus' = NoBus
  /\ pc' = "fatal"
  /\ UNCHANGED << cfgVars, codecVars, cacheData, lruCounter, storage, req,
                  resp, loc, busLog, lastUse, useCount, prevWrite, hist >>

\* ------------------------------------------------------------------------
\* CacheRequestHandler: the access once the line is available
\* ------------------------------------------------------------------------
\* writeBytesToLine(line, offset, value, byteCount); line.dirty = true
\* a write access that stores the bytes and flips the dirty bit
writeAccessFlipsDirty(line, offset, value, byteCount) ==
  [line EXCEPT !.data = writeBytesToLine(line.data, offset, value, byteCount),
               !.dirty = ~line.dirty]

\* a write access that stores the bytes and leaves the dirty bit alone
writeAccessKeepsClean(line, offset, value, byteCount) ==
  [line EXCEPT !.data = writeBytesToLine(line.data, offset, value, byteCount)]

writeAccess(line, offset, value, byteCount) ==
  [line EXCEPT !.data = writeBytesToLine(line.data, offset, value, byteCount),
               !.dirty = TRUE]

FinishReadWrite ==
  /\ pc = "access"
  /\ req.type \in {"read", "write"}
  /\ LET safeAddr == BitAnd(req.addr, AddrMask)
         byteCount == getSizeInBytes(req.size)
         line == cacheData[loc.setIndex][loc.wayIdx]
     IN  IF req.type = "write"
         THEN /\ cacheData' =
                   [cacheData EXCEPT ![loc.setIndex][loc.wayIdx] =
                      writeAccess(@, loc.offset, req.value, byteCount)]
              /\ resp' = Payload(Response("write", safeAddr, req.size,
                                          req.value, TRUE),
                                 << "WR", req.size, "OK" >>)
         ELSE /\ cacheData' = cacheData
              /\ LET value == readBytesFromLine(line.data, loc.offset,
                                                byteCount)
                 IN  resp' = Payload(Response("read", safeAddr, req.size,
                                              value, TRUE),
                                     << "RD", req.size,
                                        maskToSize(value, req.size) >>)
  /\ pc' = "responded"
  /\ UNCHANGED << cfgVars, codecVars, lruCounter, storage, req, loc, bus,
                  busLog, lastUse, useCount, prevWrite,
                  hist >>

FinishPrefetch ==
  /\ pc = "access"
  /\ req.type = "prefetch"
  /\ LET safeAddr == BitAnd(req.addr, AddrMask)
     IN  resp' = Payload(Response("prefetch", safeAddr, 0, BigZero, TRUE),
                         << "PREFETCH", formatAddr(safeAddr) >>)
  /\ pc' = "responded"
  /\ UNCHANGED << cfgVars, codecVars, cacheData, lruCounter, storage, req,
                  loc, bus, busLog, lastUse, useCount, prevWrite,
                  hist >>

\* a line_read that returns lineSize bytes from the offset of addr on
FinishLineReadFromOffset ==
  /\ pc = "access"
  /\ req.type = "line_read"
  /\ LET safeAddr == BitAnd(req.addr, AddrMask)
         lineData == readBytesFromLine(
                       cacheData[loc.setIndex][loc.wayIdx].data,
                       loc.offset, req.lineSize)
     IN  resp' = Payload(Response("line_read", safeAddr, 0, lineData, TRUE),
                         << "LINE RD", formatAddr(safeAddr), lineData >>)
  /\ pc' = "responded"
  /\ UNCHANGED << cfgVars, codecVars, cacheData, lruCounter, storage, req,
                  loc, bus, busLog, lastUse, useCount, prevWrite,
                  hist >>

FinishLineRead ==
  /\ pc = "access"
  /\ req.type = "line_read"
  /\ LET safeAddr == BitAnd(req.addr, AddrMask)
         lineData == cacheData[loc.setIndex][loc.wayIdx].data
     IN  resp' = Payload(Response("line_read", safeAddr, 0, lineData, TRUE),
                         << "LINE RD", formatAddr(safeAddr), lineData >>)
  /\ pc' = "responded"
  /\ UNCHANGED << cfgVars, codecVars, cacheData, lruCounter, storage, req,
                  loc, bus, busLog, lastUse, useCount, prevWrite,
                  hist >>

FinishLineWrite ==
  /\ pc = "access"
  /\ req.type = "line_write"
  /\ cacheData' =
       [cacheData EXCEPT ![loc.setIndex][loc.wayIdx] =
          [@ EXCEPT !.data = applyWriteMask(@, req.value, req.writeMask,
                                            req.lineSize),
                    !.dirty = TRUE]]
  /\ LET safeAddr == BitAnd(req.addr, AddrMask)
     IN  resp' = Payload(Response("line_write", safeAddr, 0, BigZero, TRUE),
                         << "LINE WR", formatAddr(safeAddr), req.writeMask,
                            req.lineSize >>)
  /\ pc' = "responded"
  /\ UNCHANGED << cfgVars, codecVars, lruCounter, storage, req, loc, bus,
                  busLog, lastUse, useCount, prevWrite,
                  hist >>

\* handleZero: zeroLine on the matched line or on the victim
ZeroLineStep ==
  /\ pc = "zeroLine"
  /\ LET line == cacheData[loc.setIndex][loc.wayIdx]
     IN  /\ cacheData' = [cacheData EXCEPT ![loc.setIndex][loc.wayIdx] =
                                              zeroLine(@, loc.tag)]
         /\ busLog' = IF loc.hit THEN busLog
                      ELSE Append(busLog,
                             LogEntry("install", "line",
                                      getLineBaseAddress(loc.tag, loc.setIndex),
                                      BigZero, line.valid, line.dirty))
  /\ lruCounter' = lruCounter + 1
  /\ Used(loc.setIndex, loc.wayIdx)
  /\ LET safeAddr == BitAnd(req.addr, AddrMask)
     IN  resp' = Payload(Response("zero", safeAddr, 0, BigZero, TRUE),
                         << "ZERO", formatAddr(safeAddr) >>)
  /\ pc' = "responded"
  /\ UNCHANGED << cfgVars, codecVars, storage, req, loc, bus, prevWrite,
                  hist >>

\* the response reaches the master; the transaction's locals are gone.
\* With keep, the history remembers the last write for as long as the
\* requests that follow it are reads of resident lines, which evict nothing.
Retire(keep) ==
  /\ pc = "responded"
  /\ pc' = "idle"
  /\ prevWrite' = IF keep /\ req.type = "write" THEN req
                  ELSE IF keep /\ req.type = "read" /\ loc.resident
                       THEN prevWrite
                       ELSE NoReq
  /\ LET flat == IF DOMAIN hist.flat # {} /\ req.type = "write"
                 THEN writeBytesLE(hist.flat, BitAnd(req.addr, AddrMask),
                                   req.value, getSizeInBytes(req.size))
                 ELSE hist.flat
     IN  hist' = IF hist.track /\ hist.chain
                 THEN [hist EXCEPT !.before = NoSnapshot,
                                   !.last = [req |-> req, resp |-> resp,
                                             loc |-> loc,
                                             after |-> Snapshot],
                                   !.flat = flat]
                 ELSE IF hist.track
                      THEN [hist EXCEPT !.before = NoSnapshot, !.flat = flat]
                 ELSE [hist EXCEPT !.flat = flat]
  /\ req' = NoReq
  /\ resp' = NoResp
  /\ loc' = NoLoc
  /\ busLog' = << >>
  /\ UNCHANGED << cfgVars, codecVars, cacheData, lruCounter, storage, bus,
                  lastUse, useCount >>

\* ------------------------------------------------------------------------
\* Spec: a controller over a memory store, a master issuing all nine kinds
\* ------------------------------------------------------------------------
Geometries ==
  { [offsetBits |-> 0, setBits |-> 0, numWays |-> 2, policy |-> "LRU_POLICY"] }

Addrs == {26, 27, 10}
ReadSizes == {1}
WriteSizes == {1}
LineSizes == {2}
WriteMasks == {1}

Init ==
  /\ \E g \in Geometries : InitCache(g)
  /\ hist = NoHist(FALSE)
  /\ cAddr = 0
  /\ cOut = << >>
  /\ fnArgs = << >>

\* the master issues its next request while the clock is below the bound
Admit == lruCounter < MaxClock

Next ==
  \/ /\ Admit
     /\ \E a \in Addrs, sz \in ReadSizes : HandleReadWrite(ReadReq(a, sz))
  \/ /\ Admit
     /\ \E a \in Addrs, sz \in WriteSizes :
          HandleReadWrite(WriteReq(a, sz, V1))
  \/ /\ Admit
     /\ \/ \E a \in Addrs : HandleInvalidate(AddrReq("inval", a))
        \/ \E g \in BOOLEAN : HandleInvalidate(SweepReq("inval", g))
  \/ /\ Admit
     /\ \/ \E a \in Addrs : HandleClean(AddrReq("clean", a))
        \/ \E g \in BOOLEAN : HandleClean(SweepReq("clean", g))
  \/ /\ Admit
     /\ \/ \E a \in Addrs : HandleFlush(AddrReq("flush", a))
        \/ \E g \in BOOLEAN : HandleFlush(SweepReq("flush", g))
  \/ Admit /\ \E a \in Addrs : HandleZero(AddrReq("zero", a))
  \/ Admit /\ \E a \in Addrs : HandlePrefetch(AddrReq("prefetch", a))
  \/ /\ Admit
     /\ \E a \in Addrs, n \in LineSizes : HandleLineRead(LineReadReq(a, n))
  \/ /\ Admit
     /\ \E a \in Addrs, n \in LineSizes, m \in WriteMasks :
          HandleLineWrite(LineWriteReq(a, n, V1, m))
  \/ SweepNext
  \/ SweepDone
  \/ FlushInvalidate
  \/ ManagementResponse
  \/ WriteBackSkip
  \/ WriteBackIssue
  \/ WriteBackReturn
  \/ WriteBackExit
  \/ FetchIssue
  \/ FetchInstall
  \/ MemoryProcessTransaction
  \/ FinishReadWrite
  \/ FinishPrefetch
  \/ FinishLineRead
  \/ FinishLineWrite
  \/ ZeroLineStep
  \/ Retire(FALSE)

Spec == Init /\ [][Next]_vars

\* ------------------------------------------------------------------------
\* SpecRW: the 1-way, 1-set, 2-byte-line cache of the scenarios, a master
\* issuing reads and writes of every size class
\* ------------------------------------------------------------------------
GeometriesRW ==
  { [offsetBits |-> 1, setBits |-> 0, numWays |-> 1, policy |-> "LRU_POLICY"] }

AddrsRW == {26, 27, 10, 282}
SizesRW == 0 .. 3
ValuesRW == {V1, V2}

InitRW ==
  /\ \E g \in GeometriesRW : InitCache(g)
  /\ hist = NoHist(FALSE)
  /\ cAddr = 0
  /\ cOut = << >>
  /\ fnArgs = << >>

NextRW ==
  \/ /\ Admit
     /\ \E a \in AddrsRW, sz \in SizesRW : HandleReadWrite(ReadReq(a, sz))
  \/ /\ Admit
     /\ \E a \in AddrsRW, sz \in SizesRW, v \in ValuesRW :
          HandleReadWrite(WriteReq(a, sz, v))
  \/ WriteBackIssue
  \/ WriteBackReturn
  \/ WriteBackExit
  \/ FetchIssue
  \/ FetchInstall
  \/ MemoryProcessTransaction
  \/ FinishReadWrite
  \/ Retire(TRUE)

SpecRW == InitRW /\ [][NextRW]_vars

\* ------------------------------------------------------------------------
\* SpecLru: fully associative caches of 2 and 3 one-byte lines under the
\* default policy, a master touching four lines
\* ------------------------------------------------------------------------
GeometriesLru ==
  { [offsetBits |-> 0, setBits |-> 0, numWays |-> 2, policy |-> "LRU_POLICY"],
    [offsetBits |-> 0, setBits |-> 0, numWays |-> 3, policy |-> "LRU_POLICY"] }

AddrsLru == {26, 27, 10, 14}

\* one more access than Spec admits: touch, touch, touch again, evict
AdmitLru == lruCounter < MaxClock + 2

InitLru ==
  /\ \E g \in GeometriesLru : InitCache(g)
  /\ hist = NoHist(FALSE)
  /\ cAddr = 0
  /\ cOut = << >>
  /\ fnArgs = << >>

NextLru ==
  \/ AdmitLru /\ \E a \in AddrsLru : HandleReadWrite(ReadReq(a, 0))
  \/ AdmitLru /\ \E a \in AddrsLru : HandleZero(AddrReq("zero", a))
  \/ AdmitLru /\ \E a \in AddrsLru : HandlePrefetch(AddrReq("prefetch", a))
  \/ AdmitLru /\ \E a \in AddrsLru : HandleInvalidate(AddrReq("inval", a))
  \/ ManagementResponse
  \/ WriteBackSkip
  \/ WriteBackIssue
  \/ WriteBackReturn
  \/ WriteBackExit
  \/ FetchIssue
  \/ FetchInstall
  \/ MemoryProcessTransaction
  \/ FinishReadWrite
  \/ FinishPrefetch
  \/ ZeroLineStep
  \/ Retire(FALSE)

SpecLru == InitLru /\ [][NextLru]_vars

\* ------------------------------------------------------------------------
\* The address codec on its own: every legal geometry, every address
\* ------------------------------------------------------------------------
CodecGeometries ==
  { [offsetBits |-> o, setBits |-> s, numWays |-> 1, policy |-> "LRU_POLICY"] :
      o \in 0 .. AddrBits, s \in 0 .. AddrBits } 

InitCodec ==
  /\ \E g \in {h \in CodecGeometries : h.offsetBits + h.setBits <= AddrBits} :
       InitCache(g)
  /\ hist = NoHist(FALSE)
  /\ cAddr \in 0 .. MaxCodecAddr
  /\ cOut = << >>
  /\ fnArgs = << >>

\* what the handlers compute from a request's address
DecodeAddress ==
  /\ cOut = << >>
  /\ LET safeAddr == BitAnd(cAddr, AddrMask)
         direct == parseAddress(cAddr)
     IN  cOut' = << [safeAddr |-> safeAddr,
                     direct |-> direct,
                     viaSafe |-> parseAddress(safeAddr),
                     base |-> getLineBaseAddress(direct.tag,
                                                 direct.setIndex)] >>
  /\ UNCHANGED << cfgVars, cacheData, lruCounter, storage, pc, req, resp, loc,
                  bus, busLog, lastUse, useCount, prevWrite, hist,
                  cAddr, fnArgs >>

NextCodec == DecodeAddress

SpecCodec == InitCodec /\ [][NextCodec]_vars

\* ------------------------------------------------------------------------
\* Requests in succession, with the history of the previous one kept
\* ------------------------------------------------------------------------
GeometriesHist ==
  { [offsetBits |-> 1, setBits |-> 0, numWays |-> 2, policy |-> "LRU_POLICY"] }

AddrsHist == {26, 11}

\* a request and its repetition, and one more in front of them
AdmitHist == lruCounter < MaxClock - 1

InitHist ==
  /\ \E g \in GeometriesHist : InitCache(g)
  /\ hist = NoHist(TRUE)
  /\ cAddr = 0
  /\ cOut = << >>
  /\ fnArgs = << >>

NextHist ==
  \/ AdmitHist /\ \E a \in AddrsHist : HandleReadWrite(ReadReq(a, 0))
  \/ AdmitHist /\ \E a \in AddrsHist : HandleReadWrite(WriteReq(a, 0, V1))
  \/ /\ AdmitHist
     /\ \/ \E a \in AddrsHist : HandleInvalidate(AddrReq("inval", a))
        \/ HandleInvalidate(SweepReq("inval", TRUE))
  \/ /\ AdmitHist
     /\ \/ \E a \in AddrsHist : HandleClean(AddrReq("clean", a))
        \/ HandleClean(SweepReq("clean", TRUE))
  \/ /\ AdmitHist
     /\ \/ \E a \in AddrsHist : HandleFlush(AddrReq("flush", a))
        \/ HandleFlush(SweepReq("flush", TRUE))
  \/ AdmitHist /\ \E a \in AddrsHist : HandleZero(AddrReq("zero", a))
  \/ AdmitHist /\ \E a \in AddrsHist : HandlePrefetch(AddrReq("prefetch", a))
  \/ AdmitHist /\ \E a \in AddrsHist : HandleLineRead(LineReadReq(a, 2))
  \/ /\ AdmitHist
     /\ \E a \in AddrsHist : HandleLineWrite(LineWriteReq(a, 2, V2, 1))
  \/ SweepNext
  \/ SweepDone
  \/ FlushInvalidate
  \/ ManagementResponse
  \/ WriteBackSkip
  \/ WriteBackIssue
  \/ WriteBackReturn
  \/ WriteBackExit
  \/ FetchIssue
  \/ FetchInstall
  \/ MemoryProcessTransaction
  \/ FinishReadWrite
  \/ FinishPrefetch
  \/ FinishLineRead
  \/ FinishLineWrite
  \/ ZeroLineStep
  \/ Retire(FALSE)

SpecHist == InitHist /\ [][NextHist]_vars

\* ------------------------------------------------------------------------
\* Whole-line requests on a cache of one four-byte line
\* ------------------------------------------------------------------------
GeometriesLine ==
  { [offsetBits |-> 2, setBits |-> 0, numWays |-> 1, policy |-> "LRU_POLICY"] }

AddrsLine == {16, 50}
LineSizesLine == {2, 4}
WriteMasksLine == {1, 6, 15}
\* 0xAABBCCDD and 0x000000FF
ValuesLine == {Big(<< 221, 204, 187, 170 >>), Big(<< 255 >>)}

InitLine ==
  /\ \E g \in GeometriesLine : InitCache(g)
  /\ hist = NoHist(TRUE)
  /\ cAddr = 0
  /\ cOut = << >>
  /\ fnArgs = << >>

NextLine ==
  \/ /\ Admit
     /\ \E a \in AddrsLine, n \in LineSizesLine :
          HandleLineRead(LineReadReq(a, n))
  \/ /\ Admit
     /\ \E a \in AddrsLine, n \in LineSizesLine, d \in ValuesLine,
           m \in WriteMasksLine :
          HandleLineWrite(LineWriteReq(a, n, d, m))
  \/ WriteBackIssue
  \/ WriteBackReturn
  \/ WriteBackExit
  \/ FetchIssue
  \/ FetchInstall
  \/ MemoryProcessTransaction
  \/ FinishLineRead
  \/ FinishLineWrite
  \/ Retire(FALSE)

SpecLine == InitLine /\ [][NextLine]_vars

\* ------------------------------------------------------------------------
\* applyWriteMask on its own: every mask, line sizes 0 .. MaxMaskBytes
\* ------------------------------------------------------------------------
\* data words of MaxMaskBytes + 1 bytes, each byte 0 or b
WordsOf(b) ==
  { [i \in ByteIdx |-> IF i <= MaxMaskBytes THEN w[i] ELSE 0] :
      w \in [0 .. MaxMaskBytes -> {0, b}] }

MaskArgs ==
  { [oldData |-> o, newData |-> d, writeMask |-> m, lineSize |-> n] :
      o \in WordsOf(17), d \in WordsOf(238),
      m \in 0 .. (Pow2(MaxMaskBytes + 1) - 1), n \in 0 .. MaxMaskBytes }

InitMask ==
  /\ InitCache([offsetBits |-> 0, setBits |-> 0, numWays |-> 1,
                policy |-> "LRU_POLICY"])
  /\ hist = NoHist(FALSE)
  /\ cAddr = 0
  /\ cOut = << >>
  /\ fnArgs \in {a \in MaskArgs : a.writeMask < Pow2(a.lineSize + 1)}

\* the merge applied once, and once more to its own result
ApplyMask ==
  /\ cOut = << >>
  /\ LET once == applyWriteMask(fnArgs.oldData, fnArgs.newData,
                                fnArgs.writeMask, fnArgs.lineSize)
     IN  cOut' = << [once |-> once,
                     twice |-> applyWriteMask(once, fnArgs.newData,
                                              fnArgs.writeMask,
                                              fnArgs.lineSize)] >>
  /\ UNCHANGED << cfgVars, cacheData, lruCounter, storage, pc, req, resp, loc,
                  bus, busLog, lastUse, useCount, prevWrite, hist, cAddr,
                  fnArgs >>

NextMask == ApplyMask

SpecMask == InitMask /\ [][NextMask]_vars

\* ------------------------------------------------------------------------
\* The downstream bus with and without a registered slave handler
\* ------------------------------------------------------------------------
GeometriesBus ==
  { [offsetBits |-> 0, setBits |-> 0, numWays |-> 1, policy |-> "LRU_POLICY",
     handler |-> h] : h \in {"MemorySlave", "null"} }

AddrsBus == {26, 10}

InitBus ==
  /\ \E g \in GeometriesBus : InitCache(g)
  /\ hist = NoHist(FALSE)
  /\ cAddr = 0
  /\ cOut = << >>
  /\ fnArgs = << >>

NextBus ==
  \/ Admit /\ \E a \in AddrsBus : HandleReadWrite(ReadReq(a, 0))
  \/ /\ Admit
     /\ \E a \in AddrsBus, v \in {V1, V2} : HandleReadWrite(WriteReq(a, 0, v))
  \/ Admit /\ \E a \in AddrsBus : HandleZero(AddrReq("zero", a))
  \/ Admit /\ \E a \in AddrsBus : HandleFlush(AddrReq("flush", a))
  \/ FlushInvalidate
  \/ ManagementResponse
  \/ WriteBackSkip
  \/ WriteBackIssue
  \/ WriteBackReturn
  \/ WriteBackExit
  \/ FetchIssue
  \/ FetchInstall
  \/ MemoryProcessTransaction
  \/ InterconnectError
  \/ FinishReadWrite
  \/ ZeroLineStep
  \/ Retire(FALSE)

SpecBus == InitBus /\ [][NextBus]_vars

\* ------------------------------------------------------------------------
\* Construction with any geometry: the constructors check nothing
\* ------------------------------------------------------------------------
\* offsetBits + setBits is 3, 9 and 9: tagBits is 5, -1 and -1
GeometriesAny ==
  { [offsetBits |-> g[1], setBits |-> g[2], numWays |-> 1,
     policy |-> "LRU_POLICY"] : g \in { << 1, 2 >>, << 1, 8 >>, << 3, 6 >> } }

AddrsAny == {26, 27, 154}

InitAny ==
  /\ \E g \in GeometriesAny : InitCache(g)
  /\ hist = NoHist(FALSE)
  /\ cAddr = 0
  /\ cOut = << >>
  /\ fnArgs = << >>

NextAny ==
  \/ Admit /\ \E a \in AddrsAny : HandleReadWrite(ReadReq(a, 0))
  \/ Admit /\ \E a \in AddrsAny : HandleReadWrite(WriteReq(a, 0, V1))
  \/ WriteBackIssue
  \/ WriteBackReturn
  \/ WriteBackExit
  \/ FetchIssue
  \/ FetchInstall
  \/ MemoryProcessTransaction
  \/ FinishReadWrite
  \/ Retire(FALSE)

SpecAny == InitAny /\ [][NextAny]_vars

\* ------------------------------------------------------------------------
\* LRU_POLICY on its own: every combination of valid bits and stamps
\* ------------------------------------------------------------------------
PolicyLines ==
  { [NewLine EXCEPT !.valid = v, !.replaceState = t] :
      v \in BOOLEAN, t \in 0 .. MaxPolicyStamp }

InitPolicy ==
  /\ \E n \in 1 .. MaxPolicyWays :
       InitCache([offsetBits |-> 0, setBits |-> 0, numWays |-> n,
                  policy |-> "LRU_POLICY"])
  /\ hist = NoHist(FALSE)
  /\ cAddr = 0
  /\ cOut = << >>
  /\ fnArgs \in [WayIdx -> PolicyLines]

\* the policy applied to the ways of a set
ApplyPolicy ==
  /\ cOut = << >>
  /\ cOut' = << LRU_POLICY(fnArgs) >>
  /\ UNCHANGED << cfgVars, cacheData, lruCounter, storage, pc, req, resp, loc,
                  bus, busLog, lastUse, useCount, prevWrite, hist, cAddr,
                  fnArgs >>

NextPolicy == ApplyPolicy

SpecPolicy == InitPolicy /\ [][NextPolicy]_vars

\* ------------------------------------------------------------------------
\* Progress: a running generator is always resumed
\* ------------------------------------------------------------------------
GeometriesLive ==
  { [offsetBits |-> 0, setBits |-> 0, numWays |-> 2, policy |-> "LRU_POLICY"] }

AddrsLive == {26, 10, 14}

InitLive ==
  /\ \E g \in GeometriesLive : InitCache(g)
  /\ hist = NoHist(FALSE)
  /\ cAddr = 0
  /\ cOut = << >>
  /\ fnArgs = << >>

\* the steps of a request in progress, in the cache and in the memory store
StepLive ==
  \/ SweepNext
  \/ SweepDone
  \/ FlushInvalidate
  \/ ManagementResponse
  \/ WriteBackSkip
  \/ WriteBackIssue
  \/ WriteBackReturn
  \/ WriteBackExit
  \/ FetchIssue
  \/ FetchInstall
  \/ MemoryProcessTransaction
  \/ FinishReadWrite
  \/ ZeroLineStep

NextLive ==
  \/ Admit /\ \E a \in AddrsLive : HandleReadWrite(ReadReq(a, 0))
  \/ Admit /\ \E a \in AddrsLive : HandleReadWrite(WriteReq(a, 0, V1))
  \/ Admit /\ \E a \in AddrsLive : HandleZero(AddrReq("zero", a))
  \/ Admit /\ HandleClean(SweepReq("clean", TRUE))
  \/ Admit /\ HandleFlush(SweepReq("flush", TRUE))
  \/ StepLive
  \/ Retire(FALSE)

\* yield* runs a started generator to its end: a step that can be taken
\* is taken
SpecLive == InitLive /\ [][NextLive]_vars /\ WF_vars(StepLive)

\* ------------------------------------------------------------------------
\* Misses that replace a line: three lines of one set in two ways
\* ------------------------------------------------------------------------
GeometriesMiss ==
  { [offsetBits |-> 1, setBits |-> 1, numWays |-> 2, policy |-> "LRU_POLICY"] }

\* 0x1A, 0x0B and 0x2E share set 1; 0x0B is the second byte of its line
AddrsMiss == {26, 11, 46}
LineSizesMiss == {2, 4}

InitMiss ==
  /\ \E g \in GeometriesMiss : InitCache(g)
  /\ hist = NoHistBefore
  /\ cAddr = 0
  /\ cOut = << >>
  /\ fnArgs = << >>

NextMiss ==
  \/ Admit /\ \E a \in AddrsMiss : HandleReadWrite(ReadReq(a, 0))
  \/ Admit /\ \E a \in AddrsMiss : HandleReadWrite(WriteReq(a, 1, V1))
  \/ Admit /\ \E a \in AddrsMiss : HandleZero(AddrReq("zero", a))
  \/ Admit /\ \E a \in AddrsMiss : HandlePrefetch(AddrReq("prefetch", a))
  \/ /\ Admit
     /\ \E a \in AddrsMiss, n \in LineSizesMiss :
          HandleLineRead(LineReadReq(a, n))
  \/ WriteBackSkip
  \/ WriteBackIssue
  \/ WriteBackReturn
  \/ WriteBackExit
  \/ FetchIssue
  \/ FetchInstall
  \/ MemoryProcessTransaction
  \/ FinishReadWrite
  \/ FinishPrefetch
  \/ FinishLineRead
  \/ ZeroLineStep
  \/ Retire(FALSE)

SpecMiss == InitMiss /\ [][NextMiss]_vars

\* ------------------------------------------------------------------------
\* Maintenance of a cache of 2 sets x 2 ways that holds clean and dirty
\* lines
\* ------------------------------------------------------------------------
GeometriesSweep ==
  { [offsetBits |-> 1, setBits |-> 1, numWays |-> 2, policy |-> "LRU_POLICY"] }

\* 0x1A and 0x2E share set 1, 0x2D is the second byte of a line of set 0
AddrsSweep == {26, 45, 46}

InitSweep ==
  /\ \E g \in GeometriesSweep : InitCache(g)
  /\ hist = NoHistBefore
  /\ cAddr = 0
  /\ cOut = << >>
  /\ fnArgs = << >>

\* inval, clean and flush do not advance the clock: they are admitted
\* after the last access too
AdmitSweep == lruCounter <= MaxClock

NextSweep ==
  \/ Admit /\ \E a \in AddrsSweep : HandleReadWrite(ReadReq(a, 0))
  \/ Admit /\ \E a \in AddrsSweep : HandleReadWrite(WriteReq(a, 0, V1))
  \/ AdmitSweep /\ \E g \in BOOLEAN : HandleInvalidate(SweepReq("inval", g))
  \/ AdmitSweep /\ \E g \in BOOLEAN : HandleClean(SweepReq("clean", g))
  \/ AdmitSweep /\ \E g \in BOOLEAN : HandleFlush(SweepReq("flush", g))
  \/ SweepNext
  \/ SweepDone
  \/ FlushInvalidate
  \/ ManagementResponse
  \/ WriteBackSkip
  \/ WriteBackIssue
  \/ WriteBackReturn
  \/ WriteBackExit
  \/ FetchIssue
  \/ FetchInstall
  \/ MemoryProcessTransaction
  \/ FinishReadWrite
  \/ Retire(FALSE)

SpecSweep == InitSweep /\ [][NextSweep]_vars

\* ------------------------------------------------------------------------
\* Construction of a controller of one of the geometries, with the history
\* to keep
\* ------------------------------------------------------------------------
InitOf(geometries, history) ==
  /\ \E g \in geometries : InitCache(g)
  /\ hist = history
  /\ cAddr = 0
  /\ cOut = << >>
  /\ fnArgs = << >>

\* ------------------------------------------------------------------------
\* The slave of the downstream bus replaced between requests: the memory
\* store, a slave that answers with the wrong kind, or none
\* ------------------------------------------------------------------------
GeometriesFault ==
  { [offsetBits |-> 1, setBits |-> 0, numWays |-> 2, policy |-> "LRU_POLICY",
     handler |-> "null"] }

AddrsFault == {26, 11, 46}
HandlersFault == {"MemorySlave", "AckSlave", "null"}

NextFault ==
  \/ \E h \in HandlersFault : SetSlaveHandler(h)
  \/ Admit /\ \E a \in AddrsFault : HandleReadWrite(ReadReq(a, 0))
  \/ Admit /\ \E a \in AddrsFault : HandleReadWrite(WriteReq(a, 0, V1))
  \/ Admit /\ \E a \in AddrsFault : HandleZero(AddrReq("zero", a))
  \/ Admit /\ HandleClean(SweepReq("clean", TRUE))
  \/ Admit /\ HandleFlush(SweepReq("flush", TRUE))
  \/ SweepNext
  \/ SweepDone
  \/ FlushInvalidate
  \/ ManagementResponse
  \/ WriteBackSkip
  \/ WriteBackIssue
  \/ WriteBackReturn
  \/ WriteBackExit
  \/ FetchIssue
  \/ FetchInstall
  \/ MemoryProcessTransaction
  \/ AckProcessTransaction
  \/ InterconnectError
  \/ FinishReadWrite
  \/ ZeroLineStep
  \/ Retire(FALSE)

SpecFault == InitOf(GeometriesFault, NoHistBefore) /\ [][NextFault]_vars

\* ------------------------------------------------------------------------
\* The random policy: a 2-way cache of 2-byte lines, three lines of one set
\* and every kind of request, each access inside its line
\* ------------------------------------------------------------------------
GeometriesRandom ==
  { [offsetBits |-> 1, setBits |-> 1, numWays |-> 2,
     policy |-> "createRandomPolicy"] }

\* 0x11A (0x1A once masked) and 0x0B share set 1; 0x0B is the second byte
\* of its line
AddrsRandom == {282, 11}

\* the n bytes from address a on lie in one line
Contained(a, n) == (a % getLineSize) + n <= getLineSize

NextRandom ==
  \/ AdmitHist /\ \E a \in AddrsRandom : HandleReadWrite(ReadReq(a, 0))
  \/ /\ AdmitHist
     /\ \E a \in AddrsRandom, sz \in 0 .. 1 :
          Contained(a, Pow2(sz)) /\ HandleReadWrite(WriteReq(a, sz, V1))
  \/ /\ AdmitHist
     /\ \/ \E a \in AddrsRandom : HandleInvalidate(AddrReq("inval", a))
        \/ HandleInvalidate(SweepReq("inval", TRUE))
  \/ AdmitHist /\ \E a \in AddrsRandom : HandleClean(AddrReq("clean", a))
  \/ /\ AdmitHist
     /\ \/ \E a \in AddrsRandom : HandleFlush(AddrReq("flush", a))
        \/ HandleFlush(SweepReq("flush", TRUE))
  \/ AdmitHist /\ \E a \in AddrsRandom : HandleZero(AddrReq("zero", a))
  \/ AdmitHist /\ \E a \in AddrsRandom : HandlePrefetch(AddrReq("prefetch", a))
  \/ AdmitHist /\ \E a \in AddrsRandom : HandleLineRead(LineReadReq(a, 2))
  \/ /\ AdmitHist
     /\ \E a \in AddrsRandom : HandleLineWrite(LineWriteReq(a, 2, V2, 2))
  \/ SweepNext
  \/ SweepDone
  \/ FlushInvalidate
  \/ ManagementResponse
  \/ WriteBackSkip
  \/ WriteBackIssue
  \/ WriteBackReturn
  \/ WriteBackExit
  \/ FetchIssue
  \/ FetchInstall
  \/ MemoryProcessTransaction
  \/ FinishReadWrite
  \/ FinishPrefetch
  \/ FinishLineRead
  \/ FinishLineWrite
  \/ ZeroLineStep
  \/ Retire(FALSE)

SpecRandom == InitOf(GeometriesRandom, NoHist(FALSE)) /\ [][NextRandom]_vars

\* ------------------------------------------------------------------------
\* A one-line cache over the memory store, and the same cache over a second
\* one-line cache with lines of the same size, larger and smaller, beside a
\* flat memory that takes the same writes
\* ------------------------------------------------------------------------
GeometriesChain ==
  { [offsetBits |-> 1, setBits |-> 0, numWays |-> 1, policy |-> "LRU_POLICY",
     handler |-> "MemorySlave"] }
  \cup
  { [offsetBits |-> g[1], setBits |-> 0, numWays |-> 1,
     policy |-> "LRU_POLICY", handler |-> "L2Cache",
     l2 |-> [offsetBits |-> g[2], setBits |-> 0, numWays |-> 1]] :
      g \in { << 1, 1 >>, << 1, 2 >>, << 2, 1 >> } }

\* 0x1B is the last byte of a 2-byte and of a 4-byte line, 0x1A the first
\* byte of the 2-byte line, 0x08 the first byte of another line
AddrsChain == {27, 26, 8}

NextChain ==
  \/ /\ Admit
     /\ \E a \in AddrsChain, sz \in 0 .. 1 :
          Contained(a, Pow2(sz)) /\ HandleReadWrite(ReadReq(a, sz))
  \/ /\ Admit
     /\ \E a \in AddrsChain, sz \in 0 .. 1 :
          Contained(a, Pow2(sz)) /\ HandleReadWrite(WriteReq(a, sz, V1))
  \/ Admit /\ \E a \in AddrsChain : HandleClean(AddrReq("clean", a))
  \/ Admit /\ \E a \in AddrsChain : HandleFlush(AddrReq("flush", a))
  \/ Admit /\ \E a \in AddrsChain : HandlePrefetch(AddrReq("prefetch", a))
  \/ FlushInvalidate
  \/ ManagementResponse
  \/ WriteBackSkip
  \/ WriteBackIssue
  \/ WriteBackReturn
  \/ WriteBackExit
  \/ FetchIssue
  \/ FetchInstall
  \/ MemoryProcessTransaction
  \/ L2ProcessTransaction
  \/ FinishReadWrite
  \/ FinishPrefetch
  \/ Retire(FALSE)

SpecChain ==
  /\ InitOf(GeometriesChain,
            [NoHist(FALSE) EXCEPT !.flat = [a \in 0 .. (MemSize - 1) |-> 0]])
  /\ [][NextChain]_vars

\* ------------------------------------------------------------------------
\* Two calls of the handler of one controller, interleaved where a call
\* waits for the downstream bus
\* ------------------------------------------------------------------------
GeometriesRace ==
  { [offsetBits |-> 0, setBits |-> 0, numWays |-> 2, policy |-> "LRU_POLICY"] }

AddrsRace == {26, 10, 14}

NextRace ==
  \/ Admit /\ \E a \in AddrsRace : HandleReadWrite(ReadReq(a, 0))
  \/ Admit /\ \E a \in AddrsRace : HandleReadWrite(WriteReq(a, 0, V1))
  \/ Switch
  \/ WriteBackIssue
  \/ WriteBackReturn
  \/ WriteBackExit
  \/ FetchIssue
  \/ FetchInstall
  \/ MemoryProcessTransaction
  \/ FinishReadWrite
  \/ Retire(FALSE)

SpecRace == InitOf(GeometriesRace, NoHist(FALSE)) /\ [][NextRace]_vars

\* ------------------------------------------------------------------------
\* Arithmetic used to state the properties
\* ------------------------------------------------------------------------
LowAddr(a) == a % Pow2(AddrBits)
OffsetOf(a) == LowAddr(a) % Pow2(offsetBits)
SetOf(a) == (LowAddr(a) \div Pow2(offsetBits)) % getNumSets
TagOf(a) == LowAddr(a) \div Pow2(offsetBits + setBits)
BaseOf(t, s) == t * Pow2(offsetBits + setBits) + s * Pow2(offsetBits)
LowBytes(v, n) == [i \in ByteIdx |-> IF i < n THEN v[i] ELSE 0]
LogIdx == 1 .. Len(busLog)

\* ------------------------------------------------------------------------
\* Properties
\* ------------------------------------------------------------------------

\* C1: in every state, no set contains two valid ways holding the same tag.
C1_AtMostOneHit ==
  \A s \in SetIdx : \A w1, w2 \in WayIdx :
    (w1 # w2 /\ cacheData[s][w1].valid /\ cacheData[s][w2].valid)
      => cacheData[s][w1].tag # cacheData[s][w2].tag

\* a miss in a full set has replaced one of two valid ways
C1_Witness ==
  /\ pc = "responded"
  /\ ~loc.hit
  /\ loc.setFull
  /\ loc.caller \in {"fetchLine", "handleZero"}
  /\ \A w \in WayIdx : cacheData[loc.setIndex][w].valid

\* C2: when a miss replaces a valid dirty victim, the downstream write of
\* the victim's old data at the victim's base address is issued and
\* answered before the fetch of the new line is issued and before the new
\* line is installed in the way.
C2_WritebackBeforeFetch ==
  (~loc.hit /\ loc.caller \in {"fetchLine", "handleZero"}
     /\ loc.victim.valid /\ loc.victim.dirty)
  => \A i \in LogIdx :
       (busLog[i].ev = "install"
          \/ (busLog[i].ev = "issue" /\ busLog[i].type = "read"))
       => \E j, k \in 1 .. (i - 1) :
            /\ j < k
            /\ busLog[j] = LogEntry("issue", "write",
                                    BaseOf(loc.victim.tag, loc.setIndex),
                                    loc.victim.data, TRUE, TRUE)
            /\ busLog[k].ev = "answer"
            /\ busLog[k].type = "write"
            /\ busLog[k].addr = BaseOf(loc.victim.tag, loc.setIndex)

\* a write miss has evicted a dirty line and installed the new one
C2_Witness ==
  /\ pc = "responded"
  /\ req.type = "write"
  /\ ~loc.hit
  /\ loc.victim.valid /\ loc.victim.dirty
  /\ \E i \in LogIdx : busLog[i].ev = "install"
  /\ cacheData[loc.setIndex][loc.wayIdx].tag = TagOf(req.addr)

\* C4: every downstream write is the writeback of a line that is valid and
\* dirty when the write is issued, the line is clean once the write has
\* returned, and no write is issued for a clean or an invalid line.
C4_WritebackOnlyDirty ==
  /\ (bus.phase # "none" /\ bus.pkt.type = "write")
       => LET line == cacheData[loc.wbSet][loc.wbWay]
          IN  /\ pc = "wbTransaction"
              /\ line.valid /\ line.dirty
              /\ bus.pkt.addr = BaseOf(line.tag, loc.wbSet)
              /\ bus.pkt.value = line.data
  /\ \A i \in LogIdx :
       (busLog[i].ev = "issue" /\ busLog[i].type = "write")
         => busLog[i].wasValid /\ busLog[i].wasDirty
  /\ (pc = "wbReturned" /\ loc.wbIssued)
       => LET line == cacheData[loc.wbSet][loc.wbWay]
          IN  line.valid /\ ~line.dirty

\* a writeback has just returned
C4_Witness ==
  /\ pc = "wbReturned"
  /\ loc.wbIssued
  /\ \E i \in LogIdx : busLog[i].ev = "answer" /\ busLog[i].type = "write"

\* C5: when a write request has completed, on a hit or on a miss, a valid
\* way of the address's set carries its tag and has its dirty bit set.
C5_WriteLeavesDirty ==
  (pc = "responded" /\ req.type = "write")
  => \E w \in WayIdx :
       LET line == cacheData[SetOf(req.addr)][w]
       IN  line.valid /\ line.dirty /\ line.tag = TagOf(req.addr)

\* a write that missed has completed
C5_Witness ==
  /\ pc = "responded"
  /\ req.type = "write"
  /\ resp.type = "write"
  /\ ~loc.resident

\* C7: in every state, every dirty line is valid.
C7_DirtyImpliesValid ==
  \A s \in SetIdx : \A w \in WayIdx :
    cacheData[s][w].dirty => cacheData[s][w].valid

\* an inval request has discarded a dirty line
C7_Witness ==
  /\ pc = "mgmtEnd"
  /\ req.type = "inval"
  /\ loc.hit
  /\ loc.victim.valid /\ loc.victim.dirty
  /\ ~cacheData[loc.setIndex][loc.wayIdx].valid

\* C3: a write of value V with size class S to address A, followed by a
\* read of size class S from A with only reads of resident lines in between
\* (nothing evicts or invalidates A's line), returns V reduced to its low
\* 2^S bytes.
C3_ReadAfterWrite ==
  (/\ pc = "responded"
   /\ req.type = "read"
   /\ prevWrite.type = "write"
   /\ LowAddr(prevWrite.addr) = LowAddr(req.addr)
   /\ prevWrite.size = req.size)
  => /\ resp.type = "read"
     /\ resp.success
     /\ resp.value = LowBytes(prevWrite.value, Pow2(req.size))

\* a two-byte write at an odd address has been read back
C3_Witness ==
  /\ pc = "responded"
  /\ req.type = "read"
  /\ prevWrite.type = "write"
  /\ LowAddr(prevWrite.addr) = LowAddr(req.addr)
  /\ prevWrite.size = req.size
  /\ req.size = 1
  /\ OffsetOf(req.addr) = 1
  /\ resp.value # BigZero

\* the steps of a miss that come before the new line takes the way
BeforeInstall ==
  {"writeBackLine", "wbTransaction", "wbReturned", "fetchStart",
   "fetchTransaction", "zeroLine"}

\* C6: under the LRU policy, a miss in a set whose ways are all valid
\* evicts the way whose most recent touch (install or hit access) is older
\* than that of every other way of the set.
C6_LruEvictsOldest ==
  (/\ replacementPolicy = "LRU_POLICY"
   /\ pc \in BeforeInstall
   /\ ~loc.hit
   /\ loc.caller \in {"fetchLine", "handleZero"}
   /\ loc.setFull)
  => \A w \in WayIdx :
       w # loc.wayIdx
         => lastUse[loc.setIndex][loc.wayIdx] < lastUse[loc.setIndex][w]

\* a miss in a full set of three ways evicts a way other than the first,
\* after a hit has refreshed another way
C6_Witness ==
  /\ replacementPolicy = "LRU_POLICY"
  /\ numWays = 3
  /\ pc \in BeforeInstall
  /\ ~loc.hit
  /\ loc.caller \in {"fetchLine", "handleZero"}
  /\ loc.setFull
  /\ loc.wayIdx # 0
  /\ lastUse[loc.setIndex][0] > lastUse[loc.setIndex][2]

\* C8: for an address in 0..255 and a geometry with offsetBits + setBits
\* at most 8, the line base computed from the decoded tag and set index is
\* the address with its offsetBits low bits cleared, and base OR offset is
\* the address.
C8_BaseRoundTrip ==
  (cOut # << >> /\ cAddr < Pow2(AddrBits))
  => LET o == cOut[1]
     IN  /\ o.base = (cAddr \div Pow2(offsetBits)) * Pow2(offsetBits)
         /\ o.base + o.direct.offset = cAddr
         /\ BitOr(o.base, o.direct.offset) = cAddr

\* an address with a non-zero tag, set index and offset has been decoded
C8_Witness ==
  /\ cOut # << >>
  /\ cAddr < Pow2(AddrBits)
  /\ offsetBits > 0 /\ setBits > 0
  /\ cOut[1].direct.tag > 0
  /\ cOut[1].direct.setIndex > 0
  /\ cOut[1].direct.offset > 0
  /\ cOut[1].base > 0

\* C9: parseAddress decodes the low 8 bits of its input: the result for
\* addr is the result for addr mod 256, with offset = addr mod 2^offsetBits,
\* setIndex = (addr div 2^offsetBits) mod 2^setBits and tag =
\* addr div 2^(offsetBits+setBits) taken on addr mod 256; setIndex is below
\* numSets, offset below lineSize and tag below 2^tagBits; and the handlers
\* that decode the raw address and those that decode the masked one obtain
\* the same fields for addr and addr + 256.
C9_DecodeLowEightBits ==
  cOut # << >>
  => LET o == cOut[1]
         low == cAddr % 256
         fields == [tag |-> low \div Pow2(offsetBits + setBits),
                    setIndex |-> (low \div Pow2(offsetBits)) % Pow2(setBits),
                    offset |-> low % Pow2(offsetBits)]
     IN  /\ o.safeAddr = LowAddr(cAddr)
         /\ o.direct = fields
         /\ o.viaSafe = fields
         /\ o.direct = parseAddress(low)
         /\ o.direct.setIndex < getNumSets
         /\ o.direct.offset < getLineSize
         /\ o.direct.tag < Pow2(getTagBits)

\* an address of 256 or more with a non-zero tag has been decoded
C9_Witness ==
  /\ cOut # << >>
  /\ cAddr >= Pow2(AddrBits)
  /\ setBits > 0
  /\ cOut[1].direct.tag > 0
  /\ cOut[1].direct.setIndex > 0

\* C10: a read or write request whose line is resident issues no
\* downstream transaction, and a read of a resident line returns the bytes
\* the line holds at the request's offset.
C10_HitStaysLocal ==
  (req.type \in {"read", "write"} /\ loc.resident)
  => /\ bus = NoBus
     /\ busLog = << >>
     /\ (pc = "responded" /\ req.type = "read")
          => \E w \in WayIdx :
               LET line == cacheData[SetOf(req.addr)][w]
               IN  /\ line.valid
                   /\ line.tag = TagOf(req.addr)
                   /\ resp.value =
                        [i \in ByteIdx |->
                           IF i < Pow2(req.size)
                                /\ OffsetOf(req.addr) + i \in ByteIdx
                           THEN line.data[OffsetOf(req.addr) + i]
                           ELSE 0]

\* a read of a resident line at an odd address has returned non-zero bytes
C10_Witness ==
  /\ pc = "responded"
  /\ req.type = "read"
  /\ loc.resident
  /\ loc.hit
  /\ OffsetOf(req.addr) = 1
  /\ resp.value # BigZero
  /\ resp.value # cacheData[loc.setIndex][loc.wayIdx].data

\* an inval, clean or flush request that names one address
Addressed(r) ==
  r.type \in {"inval", "clean", "flush"} /\ r.hasAddr /\ ~r.global

\* valid, dirty, tag and data of every line, the recency stamps left out
Contents(lines) ==
  [s \in DOMAIN lines |-> [w \in DOMAIN lines[s] |->
     [valid |-> lines[s][w].valid, dirty |-> lines[s][w].dirty,
      tag |-> lines[s][w].tag, data |-> lines[s][w].data]]]

\* C11: an inval request addressed to a resident line, clean or dirty,
\* leaves that line invalid and not dirty and issues no downstream
\* transaction, the backing store staying as it was; and a read of the same
\* address that follows it is a miss.
C11_InvalDiscards ==
  /\ (/\ pc \in {"mgmtEnd", "responded"}
      /\ req.type = "inval"
      /\ Addressed(req)
      /\ loc.resident)
     => /\ loc.hit
        /\ ~cacheData[loc.setIndex][loc.wayIdx].valid
        /\ ~cacheData[loc.setIndex][loc.wayIdx].dirty
        /\ ~Resident(req.addr)
        /\ bus = NoBus
        /\ busLog = << >>
        /\ storage = hist.before.storage
  /\ (/\ pc # "idle"
      /\ req.type = "read"
      /\ hist.last.req.type = "inval"
      /\ Addressed(hist.last.req)
      /\ hist.last.loc.resident
      /\ LowAddr(hist.last.req.addr) = LowAddr(req.addr))
     => ~loc.hit /\ ~loc.resident

\* a read has fetched a line again after an inval discarded it dirty
C11_Witness ==
  /\ pc = "responded"
  /\ req.type = "read"
  /\ hist.last.req.type = "inval"
  /\ Addressed(hist.last.req)
  /\ hist.last.loc.resident
  /\ hist.last.loc.victim.dirty
  /\ hist.last.req.addr = req.addr
  /\ \E i \in LogIdx : busLog[i].ev = "install"

\* C12: an inval, clean or flush request addressed to a line that is not
\* resident leaves every line, the logical clock and the backing store as
\* they were and issues no downstream transaction.
C12_ManagementMissNoEffect ==
  (/\ pc \in {"mgmtEnd", "responded"}
   /\ Addressed(req)
   /\ ~loc.resident)
  => /\ Snapshot = hist.before
     /\ bus = NoBus
     /\ busLog = << >>

\* a flush of an absent address has completed beside a valid dirty line
C12_Witness ==
  /\ pc = "responded"
  /\ req.type = "flush"
  /\ Addressed(req)
  /\ ~loc.resident
  /\ \E w \in WayIdx : cacheData[SetOf(req.addr)][w].valid
                         /\ cacheData[SetOf(req.addr)][w].dirty

\* C13: for an addressed inval, clean or flush request, the response for
\* an address that is not resident differs from the response for the same
\* request on a resident address in its success flag or its display text.
C13_MissReported ==
  (/\ pc = "responded"
   /\ Addressed(req)
   /\ hist.last.req = req
   /\ hist.last.loc.resident
   /\ ~loc.resident)
  => \/ resp.success # hist.last.resp.success
     \/ resp.display # hist.last.resp.display

\* C16: a request identical to the one completed just before it leaves
\* valid, dirty, tag and data of every line and the backing store as the
\* first left them, and its response has the same kind, value and success
\* flag as the first.
C16_RepeatIsIdempotent ==
  (pc = "responded" /\ hist.last.req = req)
  => /\ Contents(cacheData) = Contents(hist.last.after.cacheData)
     /\ storage = hist.last.after.storage
     /\ resp.type = hist.last.resp.type
     /\ resp.value = hist.last.resp.value
     /\ resp.success = hist.last.resp.success

\* a masked line write has been repeated on a line it had made dirty
C16_Witness ==
  /\ pc = "responded"
  /\ hist.last.req = req
  /\ req.type = "line_write"
  /\ ~hist.last.loc.resident
  /\ loc.hit
  /\ cacheData[loc.setIndex][loc.wayIdx].dirty
  /\ cacheData[loc.setIndex][loc.wayIdx].data # BigZero

\* bit i of the number m
BitSet(m, i) == (m \div Pow2(i)) % 2 = 1

\* the bytes of the line of address a as the memory holds them
MemoryLine(a) ==
  [i \in ByteIdx |->
     IF i < Pow2(offsetBits)
     THEN storage[(BaseOf(TagOf(a), SetOf(a)) + i) % Pow2(AddrBits)]
     ELSE 0]

\* C14: a completed line_write (addr, lineSize, data, writeMask) leaves the
\* addressed line valid and dirty, and for each byte i < lineSize byte i of
\* the line is data's when bit i of writeMask is set and otherwise the
\* line's previous one (the one just fetched from memory, on a miss).
C14_LineWriteMerges ==
  (pc = "responded" /\ req.type = "line_write")
  => LET line == cacheData[SetOf(req.addr)][loc.wayIdx]
         old == IF loc.resident
                THEN hist.before.cacheData[SetOf(req.addr)][loc.wayIdx].data
                ELSE MemoryLine(req.addr)
     IN  /\ line.valid
         /\ line.tag = TagOf(req.addr)
         /\ line.dirty
         /\ \A i \in ByteIdx :
              i < req.lineSize
                => line.data[i] = IF BitSet(req.writeMask, i)
                                  THEN req.value[i] ELSE old[i]

\* mask 0b0001 with data 0x000000FF over a resident line 0xAABBCCDD has
\* given 0xAABBCCFF
C14_Witness ==
  /\ pc = "responded"
  /\ req = LineWriteReq(16, 4, Big(<< 255 >>), 1)
  /\ loc.resident
  /\ hist.before.cacheData[0][0].data = Big(<< 221, 204, 187, 170 >>)
  /\ cacheData[0][0].data = Big(<< 255, 204, 187, 170 >>)
  /\ cacheData[0][0].dirty

\* C15: applyWriteMask(old, new, mask, n) is old when mask = 0, is the low
\* n bytes of new when mask = 2^n - 1 and old fits in n bytes, and applying
\* it again to its own result with the same new, mask and n changes nothing.
C15_MaskAlgebra ==
  cOut # << >>
  => LET a == fnArgs
         r == cOut[1]
         fits == \A i \in ByteIdx : i >= a.lineSize => a.oldData[i] = 0
     IN  /\ a.writeMask = 0 => r.once = a.oldData
         /\ (a.writeMask = Pow2(a.lineSize) - 1 /\ fits)
              => r.once = LowBytes(a.newData, a.lineSize)
         /\ r.twice = r.once

\* a partial mask has merged bytes of both words
C15_Witness ==
  /\ cOut # << >>
  /\ fnArgs.lineSize = 3
  /\ fnArgs.writeMask = 5
  /\ cOut[1].once[0] = 238
  /\ cOut[1].once[1] = 17
  /\ cOut[1].once[2] = 238
  /\ cOut[1].once[3] = 17
  /\ cOut[1].twice = cOut[1].once

\* the number of downstream events of one kind in the current request
CountEvents(ev) == Cardinality({i \in LogIdx : busLog[i].ev = ev})

\* C17: performTransaction hands the request to the registered slave
\* handler exactly once and returns the response that handler produced;
\* with no handler registered it raises a fatal error and produces no
\* response.
C17_OneHandlerCall ==
  /\ slaveHandler = "MemorySlave"
       => /\ CountEvents("answer") + (IF bus.phase = "req" THEN 1 ELSE 0)
               = CountEvents("issue")
          /\ pc # "fatal"
  /\ \A i \in LogIdx :
       busLog[i].ev = "answer"
         => /\ i > 1
            /\ busLog[i - 1].ev = "issue"
            /\ busLog[i - 1].type = busLog[i].type
            /\ busLog[i - 1].addr = busLog[i].addr
            /\ busLog[i].type = "write"
                 => busLog[i - 1].value = busLog[i].value
  /\ \A i \in LogIdx :
       busLog[i].ev = "return"
         => /\ i > 1
            /\ busLog[i - 1].ev = "answer"
            /\ busLog[i - 1].type = busLog[i].type
            /\ busLog[i - 1].addr = busLog[i].addr
            /\ busLog[i - 1].value = busLog[i].value
  /\ bus.phase = "resp"
       => /\ busLog # << >>
          /\ busLog[Len(busLog)].ev = "answer"
          /\ busLog[Len(busLog)].type = bus.rsp.type
          /\ busLog[Len(busLog)].addr = bus.rsp.addr
          /\ busLog[Len(busLog)].value = bus.rsp.value
  /\ slaveHandler = "null"
       => /\ CountEvents("answer") = 0
          /\ CountEvents("return") = 0
          /\ bus.phase # "resp"
          /\ (CountEvents("issue") > 0 /\ bus.phase # "req")
               => pc = "fatal" /\ resp = NoResp
  /\ pc = "fatal" => slaveHandler = "null" /\ resp = NoResp

\* with a handler, a miss has had its writeback and its fetch answered
\* once each
C17_Witness ==
  /\ slaveHandler = "MemorySlave"
  /\ pc = "responded"
  /\ CountEvents("issue") = 2
  /\ CountEvents("answer") = 2
  /\ CountEvents("return") = 2

\* without a handler, the first downstream transaction has raised the error
C17_WitnessNoHandler ==
  /\ slaveHandler = "null"
  /\ pc = "fatal"
  /\ CountEvents("issue") = 1
  /\ resp = NoResp

\* C18: a controller with an illegal geometry (offsetBits + setBits > 8,
\* a negative tag width) is rejected when it is constructed, so no request
\* is ever processed by one.
C18_IllegalGeometryRejected ==
  pc = "responded" => (offsetBits + setBits <= AddrBits /\ getTagBits >= 0)

\* C19: the default policy returns the lowest index of an invalid way if
\* a way is invalid, and otherwise the lowest index among the ways with the
\* smallest replaceState.
C19_LruPolicyChoice ==
  cOut # << >>
  => LET ways == fnArgs
         v == cOut[1]
         invalid == {w \in WayIdx : ~ways[w].valid}
         oldest == {w \in WayIdx :
                      \A u \in WayIdx :
                        ways[w].replaceState <= ways[u].replaceState}
     IN  /\ v \in WayIdx
         /\ invalid # {} => (v \in invalid /\ \A w \in invalid : v <= w)
         /\ invalid = {} => (v \in oldest /\ \A w \in oldest : v <= w)

\* all ways valid, the last two sharing the smallest stamp: the policy
\* has returned the first of the two
C19_Witness ==
  /\ cOut # << >>
  /\ numWays = 3
  /\ \A w \in WayIdx : fnArgs[w].valid
  /\ fnArgs[0].replaceState = 2
  /\ fnArgs[1].replaceState = 1
  /\ fnArgs[2].replaceState = 1
  /\ cOut[1] = 1

\* a request has been admitted and has no response yet
InProgress == pc \notin {"idle", "responded"}

\* C20: with every bus handler registered, each request eventually yields
\* a response, that response is the only one of the request, and it is
\* delivered only after every downstream transaction the request issued
\* (writeback, fetch) has been answered and has returned.
C20_EveryRequestAnswered ==
  /\ [](pc = "responded"
          => /\ resp # NoResp
             /\ resp.type = req.type
             /\ bus = NoBus
             /\ CountEvents("issue") = CountEvents("answer")
             /\ CountEvents("issue") = CountEvents("return"))
  /\ [](InProgress => resp = NoResp)
  /\ [][pc = "responded" => (pc' = "idle" /\ resp' = NoResp)]_vars
  /\ (InProgress ~> pc = "responded")

\* a global flush has written back two dirty lines and then responded
C20_Witness ==
  /\ pc = "responded"
  /\ req.type = "flush"
  /\ req.global
  /\ CountEvents("issue") = 2
  /\ CountEvents("return") = 2

\* the downstream events of the current request with the given event and
\* packet type
Events(ev, type) ==
  {i \in LogIdx : busLog[i].ev = ev /\ busLog[i].type = type}

\* the line of the request's address: the way the handler worked on
AddressedLine == cacheData[SetOf(req.addr)][loc.wayIdx]

\* data with count bytes of value stored from byte offset on
BytesStored(data, offset, value, count) ==
  [i \in ByteIdx |->
     IF offset <= i /\ i < offset + count THEN value[i - offset]
     ELSE data[i]]

\* C21: a read or write request that misses issues exactly one downstream
\* read, of the base address of the requested line and of size class
\* offsetBits, and leaves the victim way valid with the requested tag and
\* the fetched data (with the written bytes stored in it, for a write),
\* clean after a read and dirty after a write.
C21_MissFetchesOneLine ==
  /\ (bus.phase # "none" /\ bus.pkt.type = "read")
       => /\ bus.pkt.size = offsetBits
          /\ bus.pkt.addr = BaseOf(TagOf(req.addr), SetOf(req.addr))
  /\ (pc = "responded" /\ req.type \in {"read", "write"} /\ ~loc.resident)
       => /\ Cardinality(Events("issue", "read")) = 1
          /\ Cardinality(Events("answer", "read")) = 1
          /\ \A i \in Events("issue", "read") :
               busLog[i].addr = BaseOf(TagOf(req.addr), SetOf(req.addr))
          /\ ~hist.before.cacheData[SetOf(req.addr)][loc.wayIdx].valid
             \/ \A w \in WayIdx :
                  hist.before.cacheData[SetOf(req.addr)][w].valid
          /\ AddressedLine.valid
          /\ AddressedLine.tag = TagOf(req.addr)
          /\ AddressedLine.dirty = (req.type = "write")
          /\ \A i \in Events("answer", "read") :
               /\ busLog[i].value = MemoryLine(req.addr)
               /\ AddressedLine.data =
                    IF req.type = "read" THEN busLog[i].value
                    ELSE BytesStored(busLog[i].value, OffsetOf(req.addr),
                                     req.value, Pow2(req.size))
          /\ \A s \in SetIdx, w \in WayIdx :
               (s # SetOf(req.addr) \/ w # loc.wayIdx)
                 => Contents(cacheData)[s][w]
                      = Contents(hist.before.cacheData)[s][w]

\* a write has missed in a full set, its dirty victim was written back and
\* the fetched line now holds the written bytes
C21_Witness ==
  /\ pc = "responded"
  /\ req.type = "write"
  /\ ~loc.resident
  /\ loc.setFull
  /\ loc.victim.dirty
  /\ Cardinality(Events("issue", "write")) = 1
  /\ AddressedLine.dirty
  /\ AddressedLine.data # MemoryLine(req.addr)

\* the request kinds whose handlers call updateReplaceState or install
TouchKinds == {"read", "write", "zero", "prefetch", "line_read", "line_write"}

\* the addressed line carries the clock, which is one tick past the clock
\* the request found
Stamped ==
  /\ lruCounter = hist.before.lruCounter + 1
  /\ AddressedLine.replaceState = lruCounter

\* the recency stamps of the lines other than the addressed one are those
\* the request found
OthersUnstamped ==
  \A s \in SetIdx, w \in WayIdx :
    (s # SetOf(req.addr) \/ w # loc.wayIdx)
      => cacheData[s][w].replaceState
           = hist.before.cacheData[s][w].replaceState

\* C22 as stated: whenever a request of any of the nine kinds hits a
\* resident line, and whenever a line is installed, that line's
\* replaceState is stamped with the incremented logical clock.
C22_TouchOnEveryHit ==
  (/\ pc = "responded"
   /\ req.hasAddr
   /\ ~req.global
   /\ loc.resident \/ req.type \in TouchKinds)
  => Stamped

\* C22, amended: whenever a read, write, zero, prefetch, line_read or
\* line_write request hits a resident line, and whenever a line is
\* installed, that line's replaceState is stamped with the incremented
\* logical clock and no other line's is; inval, clean and flush leave the
\* clock and every replaceState as they were, on a hit too.
C22_TouchOnAccess ==
  /\ (pc = "responded" /\ req.type \in TouchKinds)
       => /\ loc.hit = loc.resident
          /\ Stamped
          /\ OthersUnstamped
  /\ (pc = "responded" /\ req.type \in {"inval", "clean", "flush"})
       => /\ lruCounter = hist.before.lruCounter
          /\ \A s \in SetIdx, w \in WayIdx :
               cacheData[s][w].replaceState
                 = hist.before.cacheData[s][w].replaceState

\* a hit has restamped a line that carried an older stamp
C22_Witness ==
  /\ pc = "responded"
  /\ req.type \in TouchKinds
  /\ loc.resident
  /\ hist.before.cacheData[SetOf(req.addr)][loc.wayIdx].replaceState = 1
  /\ AddressedLine.replaceState = 2

\* C23: a zero request never issues a downstream read, on a hit or on a
\* miss; afterwards the line of the address is valid, dirty, carries the
\* requested tag and has data 0; and on a miss whose victim was valid and
\* dirty the victim's data was written downstream, at the victim's base
\* address, before the line was zeroed.
C23_ZeroNeverFetches ==
  /\ (pc # "idle" /\ req.type = "zero")
       => /\ \A i \in LogIdx : busLog[i].type # "read"
          /\ bus.phase # "none" => bus.pkt.type = "write"
  /\ (pc = "responded" /\ req.type = "zero")
       => /\ AddressedLine.valid
          /\ AddressedLine.dirty
          /\ AddressedLine.tag = TagOf(req.addr)
          /\ AddressedLine.data = BigZero
          /\ loc.hit = loc.resident
          /\ (loc.resident \/ ~(loc.victim.valid /\ loc.victim.dirty))
               => /\ Len(busLog) = (IF loc.resident THEN 0 ELSE 1)
                  /\ \A i \in LogIdx : busLog[i].ev = "install"
          /\ (~loc.resident /\ loc.victim.valid /\ loc.victim.dirty)
               => /\ Len(busLog) = 4
                  /\ busLog[1].ev = "issue"
                  /\ busLog[1].type = "write"
                  /\ busLog[1].addr = BaseOf(loc.victim.tag, SetOf(req.addr))
                  /\ busLog[1].value = loc.victim.data
                  /\ busLog[2].ev = "answer"
                  /\ busLog[2].value = loc.victim.data
                  /\ busLog[3].ev = "return"
                  /\ busLog[4].ev = "install"
                  /\ \A i \in 0 .. (Pow2(offsetBits) - 1) :
                       storage[BaseOf(loc.victim.tag, SetOf(req.addr)) + i]
                         = loc.victim.data[i]

\* a zero has missed in a full set and replaced a dirty line whose data,
\* not all zero, went to the memory first
C23_Witness ==
  /\ pc = "responded"
  /\ req.type = "zero"
  /\ ~loc.resident
  /\ loc.setFull
  /\ loc.victim.valid
  /\ loc.victim.dirty
  /\ loc.victim.data # BigZero
  /\ Len(busLog) = 4

\* an inval, clean or flush request that sweeps the whole cache
Sweeping(r) ==
  r.type \in {"inval", "clean", "flush"} /\ (r.global \/ ~r.hasAddr)

\* the line of way w of set s was valid and dirty when the request started
WasDirty(s, w) ==
  hist.before.cacheData[s][w].valid /\ hist.before.cacheData[s][w].dirty

DirtyBefore == {e \in SetIdx \X WayIdx : WasDirty(e[1], e[2])}

\* the downstream events ev of a write of the line that way w of set s held
\* when the request started: its data at its base address
LineEvents(ev, s, w) ==
  {i \in Events(ev, "write") :
     /\ busLog[i].addr = BaseOf(hist.before.cacheData[s][w].tag, s)
     /\ ev = "return"
        \/ busLog[i].value = hist.before.cacheData[s][w].data}

\* the memory holds the bytes of the line that way w of set s held when
\* the request started
StoredBefore(s, w) ==
  \A i \in 0 .. (Pow2(offsetBits) - 1) :
    storage[BaseOf(hist.before.cacheData[s][w].tag, s) + i]
      = hist.before.cacheData[s][w].data[i]

\* C24: a flush request with the global flag set, or with no address,
\* writes back every line that was valid and dirty, each exactly once and
\* each before that line is invalidated, issues no downstream write for
\* any other line, and ends with every line invalid and not dirty.
C24_FlushAllWritesBackThenInvalidates ==
  /\ (pc # "idle" /\ req.type = "flush" /\ Sweeping(req))
       => /\ \A i \in LogIdx : busLog[i].type = "write"
          /\ \A e \in DirtyBefore :
               /\ Cardinality(LineEvents("issue", e[1], e[2])) <= 1
               /\ ~cacheData[e[1]][e[2]].valid
                    => /\ LineEvents("return", e[1], e[2]) # {}
                       /\ StoredBefore(e[1], e[2])
               /\ LineEvents("return", e[1], e[2]) = {}
                    => cacheData[e[1]][e[2]].valid
                       /\ cacheData[e[1]][e[2]].data
                            = hist.before.cacheData[e[1]][e[2]].data
          /\ \A i \in Events("issue", "write") :
               \E e \in DirtyBefore : i \in LineEvents("issue", e[1], e[2])
  /\ (pc = "responded" /\ req.type = "flush" /\ Sweeping(req))
       => /\ \A s \in SetIdx, w \in WayIdx :
               ~cacheData[s][w].valid /\ ~cacheData[s][w].dirty
          /\ \A e \in DirtyBefore :
               Cardinality(LineEvents("issue", e[1], e[2])) = 1
          /\ Cardinality(Events("issue", "write")) = Cardinality(DirtyBefore)
          /\ lruCounter = hist.before.lruCounter

\* a flush of the whole cache has completed that found two dirty lines and
\* a clean one
C24_Witness ==
  /\ pc = "responded"
  /\ req.type = "flush"
  /\ Sweeping(req)
  /\ Cardinality(DirtyBefore) = 2
  /\ \E s \in SetIdx, w \in WayIdx :
       hist.before.cacheData[s][w].valid /\ ~hist.before.cacheData[s][w].dirty
  /\ Cardinality(Events("return", "write")) = 2

\* C25: a clean request with the global flag set, or with no address,
\* issues exactly one downstream write for each line that was valid and
\* dirty when the request started and none for any other line; afterwards
\* no line is dirty and every line's valid bit, tag, data and replaceState
\* are unchanged.
C25_CleanAllWritesBackDirtyLines ==
  /\ (pc # "idle" /\ req.type = "clean" /\ Sweeping(req))
       => /\ \A i \in LogIdx : busLog[i].type = "write"
          /\ \A e \in DirtyBefore :
               Cardinality(LineEvents("issue", e[1], e[2])) <= 1
          /\ \A i \in Events("issue", "write") :
               \E e \in DirtyBefore : i \in LineEvents("issue", e[1], e[2])
  /\ (pc = "responded" /\ req.type = "clean" /\ Sweeping(req))
       => /\ \A e \in DirtyBefore :
               /\ Cardinality(LineEvents("issue", e[1], e[2])) = 1
               /\ Cardinality(LineEvents("answer", e[1], e[2])) = 1
               /\ StoredBefore(e[1], e[2])
          /\ Cardinality(Events("issue", "write")) = Cardinality(DirtyBefore)
          /\ \A s \in SetIdx, w \in WayIdx :
               cacheData[s][w]
                 = [hist.before.cacheData[s][w] EXCEPT !.dirty = FALSE]
          /\ lruCounter = hist.before.lruCounter

\* a clean of the whole cache has completed that found two dirty lines, in
\* different sets, and a clean one
C25_Witness ==
  /\ pc = "responded"
  /\ req.type = "clean"
  /\ Sweeping(req)
  /\ Cardinality(DirtyBefore) = 2
  /\ \E e \in DirtyBefore : e[1] = 0
  /\ \E e \in DirtyBefore : e[1] = 1
  /\ \E s \in SetIdx, w \in WayIdx :
       hist.before.cacheData[s][w].valid /\ ~hist.before.cacheData[s][w].dirty
  /\ Cardinality(Events("answer", "write")) = 2

\* C26: an inval request with the global flag set, or with no address,
\* leaves every line of the cache invalid and not dirty and issues no
\* downstream transaction, whatever lines were dirty before.
C26_InvalAllDiscards ==
  (pc # "idle" /\ req.type = "inval" /\ Sweeping(req))
  => /\ \A s \in SetIdx, w \in WayIdx :
          cacheData[s][w]
            = [hist.before.cacheData[s][w] EXCEPT !.valid = FALSE,
                                                  !.dirty = FALSE]
     /\ bus = NoBus
     /\ busLog = << >>
     /\ storage = hist.before.storage
     /\ lruCounter = hist.before.lruCounter

\* an inval of the whole cache has completed that found two dirty lines
\* whose bytes the memory does not hold
C26_Witness ==
  /\ pc = "responded"
  /\ req.type = "inval"
  /\ Sweeping(req)
  /\ ~req.global
  /\ Cardinality(DirtyBefore) = 2
  /\ \A e \in DirtyBefore : ~StoredBefore(e[1], e[2])

\* the addressed line as the request found it
LineBefore == hist.before.cacheData[loc.setIndex][loc.wayIdx]

\* every line but the addressed one is as the request found it
OthersKept ==
  \A s \in SetIdx, w \in WayIdx :
    (s # loc.setIndex \/ w # loc.wayIdx)
      => cacheData[s][w] = hist.before.cacheData[s][w]

\* C27: a clean request addressed to a resident line issues exactly one
\* downstream write, of the line's data at its base address, if the line
\* is dirty and none if it is clean; afterwards the line is still valid,
\* is not dirty, and its tag and data are unchanged.
C27_CleanWritesBackKeepsLine ==
  /\ (pc # "idle" /\ req.type = "clean" /\ Addressed(req))
       => \A i \in LogIdx : busLog[i].type = "write"
  /\ (pc = "responded" /\ req.type = "clean" /\ Addressed(req)
        /\ loc.resident)
       => /\ loc.hit
          /\ LineBefore.valid
          /\ LineBefore.tag = TagOf(req.addr)
          /\ LineBefore.dirty
               => /\ Len(busLog) = 3
                  /\ LineEvents("issue", loc.setIndex, loc.wayIdx) = {1}
                  /\ LineEvents("answer", loc.setIndex, loc.wayIdx) = {2}
                  /\ LineEvents("return", loc.setIndex, loc.wayIdx) = {3}
                  /\ StoredBefore(loc.setIndex, loc.wayIdx)
          /\ ~LineBefore.dirty
               => busLog = << >> /\ storage = hist.before.storage
          /\ AddressedLine = [LineBefore EXCEPT !.dirty = FALSE]
          /\ OthersKept
          /\ lruCounter = hist.before.lruCounter

\* a clean has written back a dirty line, which is still in the cache
C27_Witness ==
  /\ pc = "responded"
  /\ req.type = "clean"
  /\ Addressed(req)
  /\ loc.resident
  /\ LineBefore.dirty
  /\ LineBefore.data # BigZero
  /\ Len(busLog) = 3
  /\ AddressedLine.valid
  /\ ~AddressedLine.dirty
  /\ Resident(req.addr)

\* C28: a flush request addressed to a resident line first writes the
\* line's data downstream if and only if the line is dirty, and only after
\* that write has returned makes the line invalid; afterwards the backing
\* store holds the line's data at its base address and a read of the
\* address misses.
C28_FlushWritesBackThenInvalidates ==
  /\ (pc # "idle" /\ req.type = "flush" /\ Addressed(req) /\ loc.resident)
       => /\ \A i \in LogIdx : busLog[i].type = "write"
          /\ (LineBefore.dirty /\ ~AddressedLine.valid)
               => LineEvents("return", loc.setIndex, loc.wayIdx) # {}
          /\ pc \in {"writeBackLine", "wbTransaction", "wbReturned",
                     "flushInvalidate"}
               => AddressedLine.valid
                  /\ AddressedLine.data = LineBefore.data
  /\ (pc = "responded" /\ req.type = "flush" /\ Addressed(req)
        /\ loc.resident)
       => /\ loc.hit
          /\ LineBefore.dirty
               => /\ Len(busLog) = 3
                  /\ LineEvents("issue", loc.setIndex, loc.wayIdx) = {1}
                  /\ LineEvents("return", loc.setIndex, loc.wayIdx) = {3}
          /\ ~LineBefore.dirty => busLog = << >>
          /\ ~AddressedLine.valid
          /\ ~AddressedLine.dirty
          /\ ~Resident(req.addr)
          /\ StoredBefore(loc.setIndex, loc.wayIdx)
          /\ OthersKept
  /\ (/\ pc # "idle"
      /\ req.type = "read"
      /\ hist.last.req.type = "flush"
      /\ Addressed(hist.last.req)
      /\ hist.last.loc.resident
      /\ LowAddr(hist.last.req.addr) = LowAddr(req.addr))
     => ~loc.hit /\ ~loc.resident

\* a read has fetched again, from the memory, the bytes of a dirty line
\* that a flush of the same address had written back
C28_Witness ==
  /\ pc = "responded"
  /\ req.type = "read"
  /\ hist.last.req.type = "flush"
  /\ Addressed(hist.last.req)
  /\ hist.last.loc.resident
  /\ hist.last.req.addr = req.addr
  /\ Events("issue", "read") # {}
  /\ resp.value # BigZero

\* store with the 2^offsetBits bytes of data written at base
LineStored(store, base, data) ==
  [x \in DOMAIN store |->
     IF \E i \in 0 .. (Pow2(offsetBits) - 1) : x = (base + i) % MemSize
     THEN data[(x - base) % MemSize]
     ELSE store[x]]

\* the 2^offsetBits bytes of store at base, as a data word
LineLoaded(store, base) ==
  [i \in ByteIdx |->
     IF i < Pow2(offsetBits) THEN store[(base + i) % MemSize] ELSE 0]

\* what a one-byte read of address a makes of the lines, the clock and the
\* memory of snap: a hit restamps the line; a miss writes the victim back
\* if it is valid and dirty, then loads the line into the victim's way,
\* clean and stamped
ReadEffect(snap, a) ==
  LET s == SetOf(a)
      t == TagOf(a)
      ways == snap.cacheData[s]
      hits == {w \in WayIdx : ways[w].valid /\ ways[w].tag = t}
      tick == snap.lruCounter + 1
  IN  IF hits # {}
      THEN LET w == CHOOSE w \in hits : \A v \in hits : w <= v
           IN  [cacheData |-> [snap.cacheData EXCEPT
                                 ![s][w].replaceState = tick],
                lruCounter |-> tick,
                storage |-> snap.storage]
      ELSE LET v == LRU_POLICY(ways)
               store == IF ways[v].valid /\ ways[v].dirty
                        THEN LineStored(snap.storage, BaseOf(ways[v].tag, s),
                                        ways[v].data)
                        ELSE snap.storage
           IN  [cacheData |-> [snap.cacheData EXCEPT
                                 ![s][v] = [valid |-> TRUE, dirty |-> FALSE,
                                            tag |-> t,
                                            data |-> LineLoaded(store,
                                                       BaseOf(t, s)),
                                            replaceState |-> tick]],
                lruCounter |-> tick,
                storage |-> store]

\* C29: a prefetch request has the same effect on the cache lines, the
\* clock and the backing store as a one-byte read of the same address: on
\* a hit only the line's recency stamp changes and nothing goes
\* downstream, on a miss the victim is written back if dirty and the line
\* is fetched and installed clean; and its response carries a success
\* flag and no data value.
C29_PrefetchActsAsRead ==
  /\ (pc = "responded" /\ req.type = "read" /\ req.size = 0)
       => Snapshot = ReadEffect(hist.before, req.addr)
  /\ (pc = "responded" /\ req.type = "prefetch")
       => /\ Snapshot = ReadEffect(hist.before, req.addr)
          /\ loc.resident
               => /\ busLog = << >>
                  /\ Contents(cacheData) = Contents(hist.before.cacheData)
          /\ ~loc.resident
               => /\ Cardinality(Events("issue", "read")) = 1
                  /\ Cardinality(Events("issue", "write"))
                       = (IF loc.victim.valid /\ loc.victim.dirty
                          THEN 1 ELSE 0)
                  /\ ~AddressedLine.dirty
          /\ resp.type = "prefetch"
          /\ resp.success
          /\ resp.addr = LowAddr(req.addr)
          /\ resp.value = BigZero

\* a prefetch has missed in a full set, written the dirty victim back and
\* installed the line clean
C29_Witness ==
  /\ pc = "responded"
  /\ req.type = "prefetch"
  /\ ~loc.resident
  /\ loc.setFull
  /\ loc.victim.dirty
  /\ loc.victim.data # BigZero
  /\ Cardinality(Events("return", "write")) = 1
  /\ Cardinality(Events("return", "read")) = 1
  /\ AddressedLine.valid
  /\ ~AddressedLine.dirty

\* C30: a line_read request returns the whole data word of the line that
\* contains addr, whatever addr's offset bits and whatever lineSize the
\* request carries; on a hit it touches the line and issues no downstream
\* transaction, on a miss it fetches and installs the line first, and in
\* both cases it leaves the line's dirty bit as it was (clean after a
\* fetch).
C30_LineReadReturnsWholeLine ==
  (pc = "responded" /\ req.type = "line_read")
  => /\ resp.type = "line_read"
     /\ resp.addr = LowAddr(req.addr)
     /\ resp.value = AddressedLine.data
     /\ AddressedLine.valid
     /\ AddressedLine.tag = TagOf(req.addr)
     /\ Stamped
     /\ storage = hist.before.storage \/ ~loc.resident
     /\ loc.resident
          => /\ loc.hit
             /\ busLog = << >>
             /\ resp.value = LineBefore.data
             /\ AddressedLine = [LineBefore EXCEPT !.replaceState = lruCounter]
     /\ ~loc.resident
          => /\ Cardinality(Events("issue", "read")) = 1
             /\ \A i \in Events("issue", "read") :
                  busLog[i].addr = BaseOf(TagOf(req.addr), SetOf(req.addr))
             /\ resp.value = MemoryLine(req.addr)
             /\ ~AddressedLine.dirty
     /\ OthersKept
          \/ (~loc.resident /\ loc.victim.valid /\ loc.victim.dirty)

\* a line_read of four bytes at the second byte of a resident dirty line
\* of two bytes has returned the line's word, which is wider than the line
C30_Witness ==
  /\ pc = "responded"
  /\ req.type = "line_read"
  /\ req.lineSize = 4
  /\ OffsetOf(req.addr) = 1
  /\ loc.resident
  /\ AddressedLine.dirty
  /\ resp.value[1] # 0
  /\ resp.value[2] # 0

\* ------------------------------------------------------------------------
\* C31
\* ------------------------------------------------------------------------
\* entry i of the downstream history is the return of a line fetch whose
\* response is not of kind read
MismatchedFetch(i) ==
  /\ i >= 3
  /\ busLog[i].ev = "return"
  /\ busLog[i].type # "read"
  /\ busLog[i - 2].ev = "issue"
  /\ busLog[i - 2].type = "read"

\* C31: when the downstream response to a line fetch is not of kind read,
\* the line is installed valid and clean with the requested tag and data 0
\* and stamped with the clock, and the request it was fetched for completes
\* with a successful response of its own kind (a read returns zero bytes);
\* no fatal error arises while the slave is registered.
C31_MismatchInstallsZeroLine ==
  /\ ( /\ pc = "access"
       /\ Len(busLog) >= 2
       /\ MismatchedFetch(Len(busLog) - 1) )
       => LET line == cacheData[loc.setIndex][loc.wayIdx]
          IN  /\ line.valid
              /\ ~line.dirty
              /\ line.tag = TagOf(req.addr)
              /\ line.data = BigZero
              /\ line.replaceState = lruCounter
              /\ busLog[Len(busLog)].ev = "install"
              /\ busLog[Len(busLog)].value = BigZero
  /\ ( /\ pc = "responded"
       /\ \E i \in LogIdx : MismatchedFetch(i) )
       => /\ resp.type = req.type
          /\ resp.success
          /\ resp.addr = LowAddr(req.addr)
          /\ req.type = "read" => resp.value = BigZero
          /\ LET line == cacheData[loc.setIndex][loc.wayIdx]
             IN  /\ line.valid
                 /\ line.tag = TagOf(req.addr)
                 /\ line.dirty = (req.type = "write")
  /\ slaveHandler = "AckSlave" => pc # "fatal"

\* a read has completed after a mismatched fetch that replaced a valid line
\* holding non-zero bytes, which was written back first
C31_Witness ==
  /\ pc = "responded"
  /\ req.type = "read"
  /\ \E i \in LogIdx : MismatchedFetch(i)
  /\ loc.victim.valid
  /\ loc.victim.dirty
  /\ loc.victim.data # BigZero
  /\ resp.value = BigZero
  /\ resp.success

\* ------------------------------------------------------------------------
\* C38
\* ------------------------------------------------------------------------
\* C38: when the downstream bus has no registered handler, a request whose
\* processing raises the fatal error leaves every line (valid, dirty, tag,
\* data, replaceState) and the clock as they were before the request.
C38_FatalErrorLeavesCacheUnchanged ==
  pc = "fatal" => /\ cacheData = hist.before.cacheData
                  /\ lruCounter = hist.before.lruCounter

\* ------------------------------------------------------------------------
\* C33
\* ------------------------------------------------------------------------
\* C33: after any sequence of requests of size classes 0..3 at arbitrary
\* addresses, every line's data stays below 2^(8 * lineSizeBytes): no byte
\* of a line's data beyond its 2^offsetBits bytes is ever set.
C33_LineDataFitsLine ==
  \A s \in SetIdx, w \in WayIdx :
    \A i \in ByteIdx :
      i >= getLineSize => cacheData[s][w].data[i] = 0

\* ------------------------------------------------------------------------
\* C34
\* ------------------------------------------------------------------------
\* C34: in a cache over a memory store that nothing else writes, with every
\* access inside one line, every line that is valid and not dirty holds
\* exactly the little-endian contents of the memory bytes at
\* [base, base + lineSize) of its reconstructed base address.
C34_CleanLineEqualsMemory ==
  \A s \in SetIdx, w \in WayIdx :
    LET line == cacheData[s][w]
    IN  (line.valid /\ ~line.dirty)
          => line.data = readBytesLE(storage, BaseOf(line.tag, s), getLineSize)

\* a line that was written and written back sits clean beside a dirty one
C34_Witness ==
  /\ pc = "idle"
  /\ \E s \in SetIdx, w, v \in WayIdx :
       /\ cacheData[s][w].valid
       /\ ~cacheData[s][w].dirty
       /\ cacheData[s][w].data # BigZero
       /\ cacheData[s][v].valid
       /\ cacheData[s][v].dirty

\* ------------------------------------------------------------------------
\* C35
\* ------------------------------------------------------------------------
\* C35: the logical clock never decreases, every line's replaceState is at
\* most the clock, and any two lines with a non-zero replaceState carry
\* different stamps.
C35_StampsUniqueAndBounded ==
  /\ [][lruCounter' >= lruCounter]_vars
  /\ [](\A s \in SetIdx, w \in WayIdx :
          cacheData[s][w].replaceState <= lruCounter)
  /\ [](\A s, t \in SetIdx, w, v \in WayIdx :
          ( /\ << s, w >> # << t, v >>
            /\ cacheData[s][w].replaceState # 0 )
          => cacheData[s][w].replaceState # cacheData[t][v].replaceState)

\* two lines of a set have been stamped, one of them no longer valid
C35_Witness ==
  \E s \in SetIdx, w, v \in WayIdx :
    /\ cacheData[s][w].replaceState = 1
    /\ cacheData[s][v].replaceState = 2
    /\ ~cacheData[s][w].valid
    /\ cacheData[s][v].valid
    /\ lruCounter = 2

\* ------------------------------------------------------------------------
\* C36
\* ------------------------------------------------------------------------
\* C36: every request the controller issues on its downstream bus is of
\* kind read or write, is addressed to a line base address (offset bits
\* zero, below 256) and has size class offsetBits; no other kind of request
\* is forwarded downstream.
C36_DownstreamOnlyLineReadWrite ==
  /\ bus.phase # "none"
       => /\ bus.pkt.type \in {"read", "write"}
          /\ bus.pkt.hasAddr
          /\ bus.pkt.addr \in 0 .. (MemSize - 1)
          /\ bus.pkt.addr % getLineSize = 0
          /\ bus.pkt.size = offsetBits
  /\ \A i \in LogIdx :
       busLog[i].ev = "issue"
         => /\ busLog[i].type \in {"read", "write"}
            /\ busLog[i].addr \in 0 .. (MemSize - 1)
            /\ busLog[i].addr % getLineSize = 0

\* the fetch of a line for a line_write addressed to its second byte is on
\* the bus, after the writeback of the victim chosen for it
C36_Witness ==
  /\ bus.phase = "req"
  /\ bus.pkt.type = "read"
  /\ req.type = "line_write"
  /\ req.addr = 11
  /\ bus.pkt.addr = 10
  /\ \E i \in LogIdx : busLog[i].ev = "issue" /\ busLog[i].type = "write"
                        /\ busLog[i].addr = 26

\* ------------------------------------------------------------------------
\* C37
\* ------------------------------------------------------------------------
\* C37: under a policy that may return any index in 0..numWays-1, the
\* controller keeps at most one valid way per tag in each set, keeps dirty
\* implies valid, and writes back every valid dirty victim before it
\* overwrites it: no line is valid and dirty at the moment of its
\* replacement, and the memory holds the victim's data once the new line
\* is in its way.
C37_AnyPolicyKeepsInvariants ==
  /\ \A s \in SetIdx, w, v \in WayIdx :
       (w # v /\ cacheData[s][w].valid /\ cacheData[s][v].valid)
         => cacheData[s][w].tag # cacheData[s][v].tag
  /\ \A s \in SetIdx, w \in WayIdx :
       cacheData[s][w].dirty => cacheData[s][w].valid
  /\ \A i \in LogIdx :
       busLog[i].ev = "install"
         => /\ ~(busLog[i].wasValid /\ busLog[i].wasDirty)
            /\ ( /\ ~loc.hit
                 /\ loc.victim.valid
                 /\ loc.victim.dirty )
                 => LineLoaded(storage,
                               BaseOf(loc.victim.tag, loc.setIndex))
                      = loc.victim.data

\* the policy chose a valid dirty way while the other way was invalid, and
\* the new line is installed
C37_Witness ==
  /\ pc = "responded"
  /\ replacementPolicy = "createRandomPolicy"
  /\ ~loc.hit
  /\ loc.victim.valid
  /\ loc.victim.dirty
  /\ loc.victim.data # BigZero
  /\ ~loc.setFull
  /\ \E i \in LogIdx : busLog[i].ev = "install"

\* ------------------------------------------------------------------------
\* C32
\* ------------------------------------------------------------------------
\* the bytes a flat memory holds where the completed read looked
FlatValue == readBytesLE(hist.flat, LowAddr(req.addr), Pow2(req.size))

\* C32: a single cache over a memory store refines a flat 256-byte memory:
\* through any sequence of read, write, clean, flush and prefetch requests
\* whose bytes lie inside one line, every read returns the little-endian
\* value that the same reads and writes produce on a flat byte array.
C32_SingleCacheRefinesFlatMemory ==
  (slaveHandler = "MemorySlave" /\ pc = "responded" /\ req.type = "read")
    => resp.value = FlatValue

\* a two-byte read of a line that was written, evicted and fetched again
C32_Witness ==
  /\ slaveHandler = "MemorySlave"
  /\ pc = "responded"
  /\ req.type = "read"
  /\ req.size = 1
  /\ ~loc.resident
  /\ resp.value[0] = 18
  /\ resp.value[1] = 52

\* ------------------------------------------------------------------------
\* C40
\* ------------------------------------------------------------------------
\* C40: in a chain master -> L1 cache -> L2 cache -> memory store, for L1
\* lines smaller than, equal to and larger than L2's, every read through L1
\* (inside one L1 line) returns the value most recently written through L1
\* to those bytes.
C40_HierarchyReadsLastWrite ==
  (slaveHandler = "L2Cache" /\ pc = "responded" /\ req.type = "read")
    => resp.value = FlatValue

\* ------------------------------------------------------------------------
\* C39
\* ------------------------------------------------------------------------
\* C39: when two transactions against one controller are interleaved where
\* one waits for its downstream writeback or fetch, a line made dirty by
\* one is never overwritten by the other's install without having been
\* written back first, and no set ends with two valid ways of one tag.
C39_InterleavingLosesNoWrite ==
  /\ \A i \in LogIdx :
       busLog[i].ev = "install"
         => ~(busLog[i].wasValid /\ busLog[i].wasDirty)
  /\ \A i \in 1 .. Len(other.busLog) :
       other.busLog[i].ev = "install"
         => ~(other.busLog[i].wasValid /\ other.busLog[i].wasDirty)
  /\ \A s \in SetIdx, w, v \in WayIdx :
       (w # v /\ cacheData[s][w].valid /\ cacheData[s][v].valid)
         => cacheData[s][w].tag # cacheData[s][v].tag

====
